---------------------------- MODULE Spec2Model ----------------------------
(***************************************************************************)
(* Model of the biomedical ECG agent, src/command/biomed/biomed_1.py.      *)
(*                                                                         *)
(* Representation.                                                         *)
(*   bytes       sequences of integers 0..255 (Python index i is TLA+      *)
(*               index i+1)                                                *)
(*   None        Optional values are sequences: <<>> is None, <<v>> is v   *)
(*   floats      fixed point: sample rates in mHz (130.0 Hz = 130000),     *)
(*               durations in ms, the quality score in 1/100               *)
(*   timestamps  the device timestamp is a 64-bit nanosecond count; TLC    *)
(*               integers are 32 bits wide, so the streams fed to          *)
(*               on_message count device time in units of TsUnitNs         *)
(*               nanoseconds                                               *)
(***************************************************************************)
EXTENDS Integers, Sequences, FiniteSets, TLC

VARIABLES
    states,     \* states: Dict[(team, ff), StreamState]
    filt_cache, \* filt_cache: rounded rate -> the rate its filters were designed for
    appended,   \* history: every sample ever appended to a key's buffer
    out,        \* messages published by the last on_message call, in order
    last,       \* what the last on_message call did
    nmsgs,      \* number of messages delivered so far
    din,        \* input handed to a decoding function
    dout        \* result of the decoding function on din

vars == <<states, filt_cache, appended, out, last, nmsgs, din, dout>>

(***************************************************************************)
(* Helpers                                                                 *)
(***************************************************************************)
None == <<>>
Some(v) == <<v>>
IsNone(o) == o = <<>>
Val(o) == o[1]

Min(a, b) == IF a <= b THEN a ELSE b
Max(a, b) == IF a >= b THEN a ELSE b

\* clamp(x, lo, hi) = max(lo, min(hi, x))
clamp(x, lo, hi) == Max(lo, Min(hi, x))

\* the last n elements of s (Python s[-n:] for 0 < n <= len(s))
LastN(s, n) == SubSeq(s, Len(s) - n + 1, Len(s))

(***************************************************************************)
(* Decoding: ECG1 bundle + Polar PMD ECG                                   *)
(***************************************************************************)

\* A 32-bit word is kept as two 16-bit halves <<lo, hi>>.
\* v = b0 | (b1 << 8) | (b2 << 16); if v & 0x00800000: v |= 0xFF000000
Word24(x3) ==
    LET b0 == x3[1]
        b1 == x3[2]
        b2 == x3[3]
        neg == (b2 \div 128) % 2 = 1          \* v & 0x00800000
    IN  [lo |-> b0 + b1 * 256,
         hi |-> IF neg THEN b2 + 65280 ELSE b2]   \* 0xFF00 | b2

\* struct.unpack("<i", struct.pack("<I", v & 0xFFFFFFFF))[0]
UnpackI32(w) ==
    IF w.hi >= 32768
        THEN (w.hi - 65536) * 65536 + w.lo
        ELSE w.hi * 65536 + w.lo

s24le_to_int_NoSignExt(x3) == x3[1] + x3[2] * 256 + x3[3] * 65536

s24le_to_int(x3) == UnpackI32(Word24(x3))

MAGIC == <<69, 67, 71, 49>>     \* b"ECG1"

\* the for loop of parse_ecg1_bundle: idx is the Python index, todo the
\* iterations left, pkts the frames collected so far
RECURSIVE BundleLoop(_, _, _, _)
BundleLoop(payload, idx, todo, pkts) ==
    IF todo = 0 THEN pkts
    ELSE IF idx + 2 > Len(payload) THEN pkts                      \* break
    ELSE LET L == payload[idx + 1] + payload[idx + 2] * 256
             i2 == idx + 2
         IN  IF i2 + L > Len(payload) THEN pkts                   \* break
             ELSE BundleLoop(payload, i2 + L, todo - 1,
                             Append(pkts, SubSeq(payload, i2 + 1, i2 + L)))

RECURSIVE BundleLoop_DropsLast(_, _, _, _)
BundleLoop_DropsLast(payload, idx, todo, pkts) ==
    IF todo = 0 THEN pkts
    ELSE IF idx + 2 > Len(payload) THEN pkts
    ELSE LET L == payload[idx + 1] + payload[idx + 2] * 256
             i2 == idx + 2
         IN  IF i2 + L >= Len(payload) THEN pkts
             ELSE BundleLoop_DropsLast(payload, i2 + L, todo - 1,
                             Append(pkts, SubSeq(payload, i2 + 1, i2 + L)))

parse_ecg1_bundle_DropsLast(payload) ==
    IF Len(payload) < 9 \/ SubSeq(payload, 1, 4) # MAGIC
        THEN <<>>
        ELSE BundleLoop_DropsLast(payload, 9, payload[9], <<>>)

parse_ecg1_bundle(payload) ==
    IF Len(payload) < 9 \/ SubSeq(payload, 1, 4) # MAGIC
        THEN <<>>
        ELSE BundleLoop(payload, 9, payload[9], <<>>)

\* struct.unpack("<Q", b)[0]: the little-endian value of 8 bytes
RECURSIVE UnpackU64LE(_)
UnpackU64LE(b) ==
    IF Len(b) = 0 THEN 0 ELSE b[1] + 256 * UnpackU64LE(Tail(b))

\* samples[i] = s24le_to_int(data[i*3:(i*3)+3]) for i in range(n)
SampleLoop(data, n) ==
    [i \in 1..n |-> s24le_to_int(SubSeq(data, (i - 1) * 3 + 1, (i - 1) * 3 + 3))]

\* the result (None, None)
NoneNone == [none |-> TRUE, ts |-> 0, samples |-> <<>>]

parse_polar_pmd_ecg_packet_KeepsPartial(pkt) ==
    IF Len(pkt) < 10 \/ pkt[1] # 0
        THEN NoneNone
        ELSE LET data == SubSeq(pkt, 11, Len(pkt)) \o <<0, 0>>
             IN  [none |-> FALSE,
                  ts |-> UnpackU64LE(SubSeq(pkt, 2, 9)),
                  samples |-> SampleLoop(data, (Len(pkt) - 10 + 2) \div 3)]

parse_polar_pmd_ecg_packet(pkt) ==
    IF Len(pkt) < 10 \/ pkt[1] # 0
        THEN NoneNone
        ELSE LET ts == UnpackU64LE(SubSeq(pkt, 2, 9))
                 data == SubSeq(pkt, 11, Len(pkt))
                 n == Len(data) \div 3
             IN  IF n <= 0
                     THEN [none |-> FALSE, ts |-> ts, samples |-> <<>>]
                     ELSE [none |-> FALSE, ts |-> ts,
                           samples |-> SampleLoop(data, n)]


(***************************************************************************)
(* The sender's side of the wire format, used to build inputs              *)
(***************************************************************************)
\* struct.pack of an unsigned little-endian integer on n bytes
RECURSIVE PackLE(_, _)
PackLE(v, n) == IF n = 0 THEN <<>> ELSE <<v % 256>> \o PackLE(v \div 256, n - 1)

\* the edge's framing: b"ECG1" + 4 header bytes + count + [lenLE + pkt]...
RECURSIVE PackFrames(_)
PackFrames(frames) ==
    IF Len(frames) = 0 THEN <<>>
    ELSE PackLE(Len(frames[1]), 2) \o frames[1] \o PackFrames(Tail(frames))

PackBundle(frames) == MAGIC \o <<0, 0, 0, 0>> \o <<Len(frames)>> \o PackFrames(frames)

\* a PMD ECG frame: type, timestamp, frame-type byte, 24-bit samples
PackPmd(type, ts, data) == <<type>> \o PackLE(ts, 8) \o <<0>> \o data

\* a signed sample as a 24-bit little-endian triplet
Pack24(v) == PackLE(IF v < 0 THEN v + 16777216 ELSE v, 3)

\* the triplets of n samples base, base + 1, ...
PackRamp(base, n) ==
    [j \in 1..(3 * n) |-> Pack24(base + (j - 1) \div 3)[((j - 1) % 3) + 1]]

(***************************************************************************)
(* Configuration.  The source reads these from the environment (defaults   *)
(* DEFAULT_FS=130.0, WINDOW_SEC=30.0, MIN_SEC_FOR_ANALYSIS=10.0).  The     *)
(* model is the agent run with DEFAULT_FS=60, WINDOW_SEC=2 and             *)
(* MIN_SEC_FOR_ANALYSIS=1, so that the minimum duration, a window and the  *)
(* buffer capacity are 60, 120 and 600 samples; the thresholds keep their  *)
(* defaults.                                                               *)
(***************************************************************************)
DEFAULT_FS == 60000                 \* DEFAULT_FS, mHz
WINDOW_SEC == 2000                  \* WINDOW_SEC, ms
MIN_SEC_FOR_ANALYSIS == 1000        \* MIN_SEC_FOR_ANALYSIS, ms
LOW_SQI == 30                       \* LOW_SQI, 1/100

\* int(fs * 2): the samples of two seconds
TwoSeconds(fs) == (fs * 2) \div 1000

Need_TwoSeconds(fs) == (2 * MIN_SEC_FOR_ANALYSIS * fs) \div 1000000

\* need = int(MIN_SEC_FOR_ANALYSIS * fs)
Need(fs) == (MIN_SEC_FOR_ANALYSIS * fs) \div 1000000

(***************************************************************************)
(* QRS + RR                                                                *)
(***************************************************************************)

\* ecg_sqi: the score is 0.0 for a window under two seconds; otherwise it
\* is 0.1 or a product of clamped numpy/scipy statistics of the window, a
\* value within [0, 1].  The model takes any value of SqiValues for it.
SqiValues == {0, 29, 30, 35, 100}
ecg_sqi(n, fs) == IF n < TwoSeconds(fs) THEN {0} ELSE SqiValues

\* a train of peaks at the sample indices from, from + step(1), from +
\* step(1) + step(2), ... below n, the steps (in ms) taken in rotation
RECURSIVE Train(_, _, _, _, _)
Train(at, steps, k, n, fs) ==
    IF at >= n THEN <<>>
    ELSE <<at>> \o Train(at + (steps[k] * fs) \div 1000000, steps,
                         (k % Len(steps)) + 1, n, fs)

\* qrs_detect: no peak for a window under two seconds; otherwise the peaks
\* scipy.signal.find_peaks reports, refined to local maxima: increasing
\* sample indices of the window.  The model takes any train of PeakSteps.
PeakSteps ==
    {<<200>>, <<300, 300, 300, 900>>, <<500, 550>>, <<700>>, <<300, 900>>, <<3000>>}
qrs_detect(n, fs) ==
    IF n < TwoSeconds(fs) THEN {<<>>}
    ELSE {<<>>} \cup {Train(0, st, 1, n, fs) : st \in PeakSteps}

\* np.diff(peaks)
Diff(x) == [i \in 1..(Len(x) - 1) |-> x[i + 1] - x[i]]

\* 0.25 < d / fs < 2.5 (seconds) for an interval of d samples, exactly
RrInRange(d, fs) == 4000 * d > fs /\ 400 * d < fs

\* rr[(rr > 0.25) & (rr < 2.5)] on the intervals in samples
RECURSIVE SelectInRange(_, _)
SelectInRange(ds, fs) ==
    IF Len(ds) = 0 THEN <<>>
    ELSE (IF RrInRange(ds[1], fs) THEN <<ds[1]>> ELSE <<>>)
         \o SelectInRange(Tail(ds), fs)

\* an interval of d samples in ms: d / fs seconds, rounded down
RrMs(d, fs) == (d * 1000000) \div fs

rr_from_peaks_TwoSuffice(peaks, fs) ==
    IF Len(peaks) < 3 THEN None
    ELSE LET kept == SelectInRange(Diff(peaks), fs)
         IN  IF Len(kept) < 2 THEN None
             ELSE Some([i \in 1..Len(kept) |-> RrMs(kept[i], fs)])

rr_from_peaks_NoRangeFilter(peaks, fs) ==
    IF Len(peaks) < 3 THEN None
    ELSE LET kept == Diff(peaks)
         IN  IF Len(kept) < 3 THEN None
             ELSE Some([i \in 1..Len(kept) |-> RrMs(kept[i], fs)])

\* rr = np.diff(peaks) / fs; rr = rr[(rr > 0.25) & (rr < 2.5)]
rr_from_peaks(peaks, fs) ==
    IF Len(peaks) < 3 THEN None
    ELSE LET kept == SelectInRange(Diff(peaks), fs)
         IN  IF Len(kept) < 3 THEN None
             ELSE Some([i \in 1..Len(kept) |-> RrMs(kept[i], fs)])

\* np.median(x) * 2 (twice the median, an integer for integer samples)
Kth(x, k) ==
    CHOOSE v \in {x[i] : i \in 1..Len(x)} :
        /\ Cardinality({i \in 1..Len(x) : x[i] < v}) < k
        /\ Cardinality({i \in 1..Len(x) : x[i] <= v}) >= k

Median2(x) ==
    LET n == Len(x)
    IN  IF n % 2 = 1 THEN 2 * Kth(x, (n + 1) \div 2)
        ELSE Kth(x, n \div 2) + Kth(x, n \div 2 + 1)

\* np.median(np.abs(x - med)) * 4, where med2 is twice the median: the
\* 1e-9 the source adds to the deviation is below the resolution of the
\* model and shows only in the strictness of the comparisons against it
Mad4(x, med2) ==
    LET a == [i \in 1..Len(x) |-> IF 2 * x[i] >= med2 THEN 2 * x[i] - med2
                                                      ELSE med2 - 2 * x[i]]
    IN  Median2(a)

\* rr[(rr >= lo) & (rr <= hi)] with lo, hi = med -+ 4.0 * dev
RECURSIVE SelectNear(_, _, _)
SelectNear(rr, med2, dev4) ==
    IF Len(rr) = 0 THEN <<>>
    ELSE (IF 4 * rr[1] >= 2 * med2 - 4 * dev4 /\ 4 * rr[1] <= 2 * med2 + 4 * dev4
             THEN <<rr[1]>> ELSE <<>>)
         \o SelectNear(Tail(rr), med2, dev4)

clean_rr_NoEscape(rr) ==
    LET med2 == Median2(rr)
        dev4 == Mad4(rr, med2)
    IN  SelectNear(rr, med2, dev4)

clean_rr(rr) ==
    LET med2 == Median2(rr)
        dev4 == Mad4(rr, med2)
        rr2 == SelectNear(rr, med2, dev4)
    IN  IF Len(rr2) >= 3 THEN rr2 ELSE rr

(***************************************************************************)
(* HRV metrics.  Units: rr in ms; bpm in 1/100 bpm; sdnn, rmssd, sd1, sd2  *)
(* in 1/10 ms; pnn in %; cvrr and the ectopy ratio in 1/1000; lf_hf and    *)
(* sampen in 1/100; quotients and roots are rounded down.                  *)
(***************************************************************************)
RECURSIVE Sum(_)
Sum(x) == IF Len(x) = 0 THEN 0 ELSE x[1] + Sum(Tail(x))

Sq(x) == [i \in 1..Len(x) |-> x[i] * x[i]]

\* floor(sqrt(v)) by bisection on [lo, hi]
RECURSIVE SqrtIn(_, _, _)
SqrtIn(v, lo, hi) ==
    IF lo >= hi THEN lo
    ELSE LET mid == (lo + hi + 1) \div 2
         IN  IF mid * mid <= v THEN SqrtIn(v, mid, hi) ELSE SqrtIn(v, lo, mid - 1)

Sqrt(v) == SqrtIn(v, 0, 46340)

\* np.var(x, ddof=1) for len(x) >= 2
Var1(x) == (Len(x) * Sum(Sq(x)) - Sum(x) * Sum(x)) \div (Len(x) * (Len(x) - 1))

\* np.mean(np.abs(diff) > t) * 100.0
PctAbove(diff, t) ==
    (100 * Cardinality({i \in 1..Len(diff) : diff[i] > t \/ diff[i] < -t})) \div Len(diff)

time_domain_hrv_OneDiffSuffices(rr) ==
    LET diff == Diff(rr)
        med2 == Median2(rr)
        mean_rr == Sum(rr) \div Len(rr)
        sums == [i \in 1..(Len(rr) - 1) |-> rr[i + 1] + rr[i]]
    IN  [bpm |-> IF med2 > 0 THEN Some(12000000 \div med2) ELSE None,
         rr_ms_mean |-> mean_rr,
         rr_ms_med |-> med2 \div 2,
         sdnn_ms |-> IF Len(rr) >= 2 THEN Some(Sqrt(100 * Var1(rr))) ELSE None,
         rmssd_ms |-> IF Len(diff) >= 1
                         THEN Some(Sqrt(100 * (Sum(Sq(diff)) \div Len(diff))))
                         ELSE None,
         pnn50_pct |-> IF Len(diff) >= 1 THEN Some(PctAbove(diff, 50)) ELSE None,
         pnn20_pct |-> IF Len(diff) >= 1 THEN Some(PctAbove(diff, 20)) ELSE None,
         cvrr |-> IF Len(rr) >= 2
                     THEN Some((Sqrt(100 * Var1(rr)) * 100) \div mean_rr)
                     ELSE None,
         sd1_ms |-> IF Len(rr) >= 3 THEN Some(Sqrt(50 * Var1(diff))) ELSE None,
         sd2_ms |-> IF Len(rr) >= 3 THEN Some(Sqrt(50 * Var1(sums))) ELSE None,
         n_rr |-> Len(rr)]

time_domain_hrv(rr) ==
    LET diff == Diff(rr)
        med2 == Median2(rr)
        mean_rr == Sum(rr) \div Len(rr)
        sums == [i \in 1..(Len(rr) - 1) |-> rr[i + 1] + rr[i]]
    IN  [bpm |-> IF med2 > 0 THEN Some(12000000 \div med2) ELSE None,
         rr_ms_mean |-> mean_rr,
         rr_ms_med |-> med2 \div 2,
         sdnn_ms |-> IF Len(rr) >= 2 THEN Some(Sqrt(100 * Var1(rr))) ELSE None,
         rmssd_ms |-> IF Len(diff) >= 2
                         THEN Some(Sqrt(100 * (Sum(Sq(diff)) \div Len(diff))))
                         ELSE None,
         pnn50_pct |-> IF Len(diff) >= 2 THEN Some(PctAbove(diff, 50)) ELSE None,
         pnn20_pct |-> IF Len(diff) >= 2 THEN Some(PctAbove(diff, 20)) ELSE None,
         cvrr |-> IF Len(rr) >= 2
                     THEN Some((Sqrt(100 * Var1(rr)) * 100) \div mean_rr)
                     ELSE None,
         sd1_ms |-> IF Len(rr) >= 3 THEN Some(Sqrt(50 * Var1(diff))) ELSE None,
         sd2_ms |-> IF Len(rr) >= 3 THEN Some(Sqrt(50 * Var1(sums))) ELSE None,
         n_rr |-> Len(rr)]

\* freq_domain_hrv: the three values are None when the tachogram
\* (t = cumsum(rr) - t[0]) ends before 10.0 s; otherwise lf and hf are
\* band powers of scipy.signal.welch and lf_hf their quotient, None when hf
\* is negligible.  The model takes any value of LfHfValues for the quotient.
LfHfValues == {100, 300}
NoFreq == [lf_power |-> None, hf_power |-> None, lf_hf |-> None]
freq_domain_hrv_GateOnSum(rr) ==
    IF Sum(rr) < 10000 THEN {NoFreq}
    ELSE {[lf_power |-> Some(1), hf_power |-> Some(0), lf_hf |-> None]}
         \cup {[lf_power |-> Some(v), hf_power |-> Some(100), lf_hf |-> Some(v)] :
                 v \in LfHfValues}

freq_domain_hrv(rr) ==
    IF Sum(rr) - rr[1] < 10000 THEN {NoFreq}
    ELSE {[lf_power |-> Some(1), hf_power |-> Some(0), lf_hf |-> None]}
         \cup {[lf_power |-> Some(v), hf_power |-> Some(100), lf_hf |-> Some(v)] :
                 v \in LfHfValues}

\* sample_entropy(x, m=2, r=0.2): None under m + 2 samples, 0.0 for a
\* constant series, otherwise -log(A / B) of the match counts or None when
\* a count is zero.  The model takes any value of SampEnValues for it.
SampEnValues == {50, 200}
sample_entropy(x) ==
    IF Len(x) < 4 THEN {None}
    ELSE IF \A i \in 1..Len(x) : x[i] = x[1] THEN {Some(0)}
    ELSE {None} \cup {Some(v) : v \in SampEnValues}

\* baevsky_stress_index: 50 ms bins from min(rr) (np.arange(min, max + 50,
\* 50) are the edges; the last bin is closed), SI = AMo / (2 * Mo * MxDMn)
baevsky_stress_index(rr) ==
    IF Len(rr) < 10 THEN None
    ELSE LET lo == Kth(rr, 1)
             hi == Kth(rr, Len(rr))
             nedges == (hi - lo + 49) \div 50 + 1
             InBin(v, j) == /\ v >= lo + 50 * (j - 1)
                            /\ \/ v < lo + 50 * j
                               \/ j = nedges - 1 /\ v <= lo + 50 * j
             hist == [j \in 1..(nedges - 1) |->
                         Cardinality({i \in 1..Len(rr) : InBin(rr[i], j)})]
             i_mode == CHOOSE j \in 1..(nedges - 1) :
                         /\ \A k \in 1..(nedges - 1) : hist[k] <= hist[j]
                         /\ \A k \in 1..(j - 1) : hist[k] < hist[j]
             mo_ms == lo + 50 * (i_mode - 1) + 25
         IN  IF nedges < 3 THEN None
             ELSE IF Sum(hist) = 0 THEN None
             ELSE Some((((hist[i_mode] * 100000) \div Sum(hist)) * 1000)
                       \div (2 * mo_ms * (hi - lo)))

(***************************************************************************)
(* Heat / strain indices.  Units: temperatures in 1/1000 degC, PSI in      *)
(* 1/1000, scores in 1/100 points.                                         *)
(***************************************************************************)

\* core_temp_estimate_c(hr_bpm, baseline_hr, ambient_c=None), hr_bpm given
core_temp_estimate_c(hr_bpm, baseline_hr) ==
    LET dhr == Max(0, hr_bpm - baseline_hr)
    IN  clamp(36800 + (18 * dhr) \div 100, 36500, 40200)

\* psi = 5.0 * (tc - 37.0) / 2.5 + 5.0 * (hr - 60.0) / 120.0
physiological_strain_index(hr, tc) ==
    Some(clamp(2 * (tc - 37000) + ((hr - 6000) * 10) \div 24, 0, 10000))

\* clamp((x - x0) / span, 0.0, 1.0) * weight, in 1/100 points
Ramp(x, x0, span, weight) ==
    clamp(((x - x0) * weight * 100) \div span, 0, weight * 100)

fatigue_score_NullPropagates(bpm, rmssd, lf_hf, si, sampen) ==
    IF IsNone(bpm) \/ IsNone(rmssd) \/ IsNone(lf_hf) \/ IsNone(si) \/ IsNone(sampen)
    THEN None
    ELSE Some(clamp(
          Ramp(Val(bpm), 10000, 8000, 30)
          + Ramp(250 - Val(rmssd), 0, 250, 30)
          + Ramp(Val(lf_hf), 150, 250, 15)
          + Ramp(Val(si), 150, 250, 15)
          + Ramp(120 - Val(sampen), 0, 120, 10),
          0, 10000))

fatigue_score(bpm, rmssd, lf_hf, si, sampen) ==
    IF IsNone(bpm) THEN None
    ELSE Some(clamp(
          Ramp(Val(bpm), 10000, 8000, 30)
          + (IF IsNone(rmssd) THEN 0 ELSE Ramp(250 - Val(rmssd), 0, 250, 30))
          + (IF IsNone(lf_hf) THEN 0 ELSE Ramp(Val(lf_hf), 150, 250, 15))
          + (IF IsNone(si) THEN 0 ELSE Ramp(Val(si), 150, 250, 15))
          + (IF IsNone(sampen) THEN 0 ELSE Ramp(120 - Val(sampen), 0, 120, 10)),
          0, 10000))

cardiac_risk_score_NoQualityGate(sqi, bpm, cvrr, ect) ==
    IF IsNone(bpm) THEN None
    ELSE Some(clamp(
          (IF Val(bpm) > 17500 THEN 3500 ELSE IF Val(bpm) > 16000 THEN 2000 ELSE 0)
          + (IF Val(bpm) < 4200 THEN 3500 ELSE IF Val(bpm) < 5000 THEN 1500 ELSE 0)
          + (IF IsNone(cvrr) THEN 0 ELSE Ramp(Val(cvrr), 100, 150, 30))
          + (IF IsNone(ect) THEN 0 ELSE Ramp(Val(ect), 0, 100, 35)),
          0, 10000))

cardiac_risk_score(sqi, bpm, cvrr, ect) ==
    IF sqi < LOW_SQI THEN None
    ELSE IF IsNone(bpm) THEN None
    ELSE Some(clamp(
          (IF Val(bpm) > 17500 THEN 3500 ELSE IF Val(bpm) > 16000 THEN 2000 ELSE 0)
          + (IF Val(bpm) < 4200 THEN 3500 ELSE IF Val(bpm) < 5000 THEN 1500 ELSE 0)
          + (IF IsNone(cvrr) THEN 0 ELSE Ramp(Val(cvrr), 100, 150, 30))
          + (IF IsNone(ect) THEN 0 ELSE Ramp(Val(ect), 0, 100, 35)),
          0, 10000))

(***************************************************************************)
(* State                                                                   *)
(***************************************************************************)

\* deque(maxlen=int(WINDOW_SEC * DEFAULT_FS * 5))
BufMaxLen_HalfThreshold == (MIN_SEC_FOR_ANALYSIS * DEFAULT_FS) \div 2000000

BufMaxLen == (WINDOW_SEC * DEFAULT_FS * 5) \div 1000000

\* StreamState(fs_est=DEFAULT_FS, buf=deque(maxlen=...)); wall-clock times
\* are in seconds
StreamState ==
    [fs_est |-> DEFAULT_FS,
     buf |-> <<>>,
     last_ts |-> None,
     last_n |-> None,
     baseline_hr |-> 8500,
     baseline_rmssd |-> 300,
     baseline_tc |-> 37000,
     auc_start_iso |-> None,
     auc_ref_tc |-> None,
     auc_area |-> 0,
     auc_last_tc |-> None,
     auc_last_t |-> None]

\* update_baselines: slow EMA
update_baselines_SameWeight(st, bpm, rmssd, tc) ==
    [st EXCEPT
        !.baseline_hr = (98 * st.baseline_hr + 2 * bpm) \div 100,
        !.baseline_rmssd = IF IsNone(rmssd) THEN st.baseline_rmssd
                           ELSE (98 * st.baseline_rmssd + 2 * Val(rmssd)) \div 100,
        !.baseline_tc = (98 * st.baseline_tc + 2 * tc) \div 100]

update_baselines(st, bpm, rmssd, tc) ==
    [st EXCEPT
        !.baseline_hr = (98 * st.baseline_hr + 2 * bpm) \div 100,
        !.baseline_rmssd = IF IsNone(rmssd) THEN st.baseline_rmssd
                           ELSE (98 * st.baseline_rmssd + 2 * Val(rmssd)) \div 100,
        !.baseline_tc = (995 * st.baseline_tc + 5 * tc) \div 1000]

\* update_heat_auc: the area is in 1/1000 degC * sec
update_heat_auc_NoGapLimit(st, tc, t_now) ==
    IF IsNone(st.auc_start_iso)
    THEN [st EXCEPT !.auc_start_iso = Some(t_now),
                    !.auc_ref_tc = Some(tc),
                    !.auc_last_tc = Some(tc),
                    !.auc_last_t = Some(t_now),
                    !.auc_area = 0]
    ELSE IF IsNone(st.auc_last_t) \/ IsNone(st.auc_last_tc) \/ IsNone(st.auc_ref_tc)
    THEN st
    ELSE LET dt == t_now - Val(st.auc_last_t)
             y0 == Val(st.auc_last_tc) - Val(st.auc_ref_tc)
             y1 == tc - Val(st.auc_ref_tc)
         IN  IF dt <= 0
             THEN [st EXCEPT !.auc_last_t = Some(t_now), !.auc_last_tc = Some(tc)]
             ELSE [st EXCEPT !.auc_area = st.auc_area + ((y0 + y1) * dt) \div 2,
                             !.auc_last_t = Some(t_now),
                             !.auc_last_tc = Some(tc)]

update_heat_auc(st, tc, t_now) ==
    IF IsNone(st.auc_start_iso)
    THEN [st EXCEPT !.auc_start_iso = Some(t_now),
                    !.auc_ref_tc = Some(tc),
                    !.auc_last_tc = Some(tc),
                    !.auc_last_t = Some(t_now),
                    !.auc_area = 0]
    ELSE IF IsNone(st.auc_last_t) \/ IsNone(st.auc_last_tc) \/ IsNone(st.auc_ref_tc)
    THEN st
    ELSE LET dt == t_now - Val(st.auc_last_t)
             y0 == Val(st.auc_last_tc) - Val(st.auc_ref_tc)
             y1 == tc - Val(st.auc_ref_tc)
         IN  IF dt <= 0 \/ dt > 60
             THEN [st EXCEPT !.auc_last_t = Some(t_now), !.auc_last_tc = Some(tc)]
             ELSE [st EXCEPT !.auc_area = st.auc_area + ((y0 + y1) * dt) \div 2,
                             !.auc_last_t = Some(t_now),
                             !.auc_last_tc = Some(tc)]

\* deque.append on a deque of bounded length: a full deque drops its oldest
\* element first
DequeAppend_DropsNewest(buf, v) ==
    IF Len(buf) >= BufMaxLen THEN buf ELSE Append(buf, v)

DequeAppend(buf, v) ==
    IF Len(buf) >= BufMaxLen THEN Append(Tail(buf), v) ELSE Append(buf, v)

\* for v in samples: st.buf.append(int(v)), on samples[lo..hi]: the
\* appends are made one by one, in order (the range is halved to keep the
\* evaluation shallow)
RECURSIVE AppendAll(_, _, _, _)
AppendAll(buf, samples, lo, hi) ==
    IF lo > hi THEN buf
    ELSE IF lo = hi THEN DequeAppend(buf, samples[lo])
    ELSE LET mid == (lo + hi) \div 2
             left == AppendAll(buf, samples, lo, mid)
         IN  IF Len(left) >= 0 THEN AppendAll(left, samples, mid + 1, hi)
             ELSE left

(***************************************************************************)
(* MQTT callbacks                                                          *)
(***************************************************************************)

\* topic_to_team_ff on topic.split("/"): raw/ECG/Team_A/FF_A
topic_to_team_ff(parts) ==
    IF Len(parts) >= 4 /\ parts[1] = "raw" /\ parts[2] = "ECG"
        THEN Some(<<parts[3], parts[4]>>)
        ELSE None

\* The fs estimate from timestamps; ts and last_ts count TsUnitNs
\* nanoseconds, so that dt > 1e6 (ns) reads dt > 1 and dt_sec = dt / 1000.
\* fs_new = last_n / dt_sec is compared exactly; the blend is rounded down
\* to mHz.
TsUnitNs == 1000000

FsUpdate_NoRateGate(st, ts) ==
    IF ~IsNone(st.last_ts) /\ ts > Val(st.last_ts)
       /\ ~IsNone(st.last_n) /\ Val(st.last_n) # 0
    THEN LET dt == ts - Val(st.last_ts)
             last_n == Val(st.last_n)
         IN  IF dt > 1000000 \div TsUnitNs /\ 1 < dt /\ dt < 2000
             THEN (9 * st.fs_est + (last_n * 1000000) \div dt) \div 10
             ELSE st.fs_est
    ELSE st.fs_est

FsUpdate_InclusiveRate(st, ts) ==
    IF ~IsNone(st.last_ts) /\ ts > Val(st.last_ts)
       /\ ~IsNone(st.last_n) /\ Val(st.last_n) # 0
    THEN LET dt == ts - Val(st.last_ts)
             last_n == Val(st.last_n)
         IN  IF dt > 1000000 \div TsUnitNs
                /\ 1 < dt /\ dt < 2000
                /\ 50 * dt <= last_n * 1000 /\ last_n * 1000 <= 300 * dt
             THEN (9 * st.fs_est + (last_n * 1000000) \div dt) \div 10
             ELSE st.fs_est
    ELSE st.fs_est

FsUpdate(st, ts) ==
    IF ~IsNone(st.last_ts) /\ ts > Val(st.last_ts)
       /\ ~IsNone(st.last_n) /\ Val(st.last_n) # 0
    THEN LET dt == ts - Val(st.last_ts)
             last_n == Val(st.last_n)
         IN  IF dt > 1000000 \div TsUnitNs                        \* dt > 1e6
                /\ 1 < dt /\ dt < 2000                         \* 0.001 < dt_sec < 2.0
                /\ 50 * dt < last_n * 1000 /\ last_n * 1000 < 300 * dt
                                                               \* 50.0 < fs_new < 300.0
             THEN (9 * st.fs_est + (last_n * 1000000) \div dt) \div 10
             ELSE st.fs_est
    ELSE st.fs_est

\* the body of "for p in pkts" for one frame
IngestPacket(st, p) ==
    LET r == parse_polar_pmd_ecg_packet(p)
    IN  IF r.none \/ Len(r.samples) = 0 THEN st
        ELSE [st EXCEPT !.fs_est = FsUpdate(st, r.ts),
                        !.last_ts = Some(r.ts),
                        !.last_n = Some(Len(r.samples)),
                        !.buf = AppendAll(st.buf, r.samples, 1, Len(r.samples))]

\* for p in pkts: ...
RECURSIVE IngestPackets(_, _, _)
IngestPackets(st, pkts, i) ==
    IF i > Len(pkts) THEN st
    ELSE IngestPackets(IngestPacket(st, pkts[i]), pkts, i + 1)

\* the samples the frames of pkts add to a buffer, in order
RECURSIVE SamplesOf(_, _)
SamplesOf(pkts, i) ==
    IF i > Len(pkts) THEN <<>>
    ELSE parse_polar_pmd_ecg_packet(pkts[i]).samples \o SamplesOf(pkts, i + 1)

\* round(x, k) of a fixed-point value: x / d rounded half to even
RoundDiv(x, d) ==
    LET q == x \div d
        r == x % d
    IN  IF 2 * r > d \/ (2 * r = d /\ q % 2 = 1) THEN q + 1 ELSE q

\* apply_filters: the effect on the cache.  A window under two seconds is
\* returned unfiltered; otherwise key = round(fs, 2) and a missing entry is
\* designed for fs (design_filters is a function of fs).
apply_filters(n, fs, cache) ==
    IF n < TwoSeconds(fs) THEN cache
    ELSE LET key == RoundDiv(fs, 10)
         IN  IF key \in DOMAIN cache THEN cache
             ELSE [k \in DOMAIN cache \cup {key} |->
                      IF k = key THEN fs ELSE cache[k]]

\* ectopy ratio proxy: np.mean((rr < med - 3*dev) | (rr > med + 3*dev))
EctopyRatio(rr) ==
    LET med2 == Median2(rr)
        dev4 == Mad4(rr, med2)
    IN  (1000 * Cardinality({i \in 1..Len(rr) :
                               \/ 4 * rr[i] < 2 * med2 - 3 * dev4
                               \/ 4 * rr[i] > 2 * med2 + 3 * dev4})) \div Len(rr)

(***************************************************************************)
(* Alert thresholds                                                        *)
(***************************************************************************)
TACHY_BPM == 17000          \* 1/100 bpm
BRADY_BPM == 4500           \* 1/100 bpm
LOW_RMSSD_MS == 180         \* 1/10 ms
HIGH_LFHF == 250            \* 1/100
PSI_WARN == 6500            \* 1/1000
PSI_DANGER == 7500          \* 1/1000
IRREGULAR_WARN == 180       \* 1/1000
BASELINE_SQI == 35          \* the 0.35 of "if sqi >= 0.35", 1/100

Alert(type, severity) == [type |-> type, severity |-> severity]

When(cond, alert) == IF cond THEN <<alert>> ELSE <<>>

\* the rules that need quality, in the order of the source
GatedAlerts(bpm, rmssd, lf_hf, cvrr, psi, fscr, cr) ==
    When(bpm > TACHY_BPM, Alert("tachy", "danger"))
    \o When(bpm < BRADY_BPM, Alert("brady", "danger"))
    \o When(~IsNone(rmssd) /\ Val(rmssd) < LOW_RMSSD_MS, Alert("fatigue_hrv", "warn"))
    \o When(~IsNone(lf_hf) /\ Val(lf_hf) > HIGH_LFHF, Alert("sympathetic_load", "warn"))
    \o When(~IsNone(cvrr) /\ Val(cvrr) > IRREGULAR_WARN, Alert("irregular_rhythm", "warn"))
    \o (IF IsNone(psi) THEN <<>>
        ELSE IF Val(psi) >= PSI_DANGER THEN <<Alert("heat_strain", "danger")>>
        ELSE IF Val(psi) >= PSI_WARN THEN <<Alert("heat_strain", "warn")>>
        ELSE <<>>)
    \o When(~IsNone(fscr) /\ Val(fscr) >= 7000, Alert("fatigue_composite", "warn"))
    \o When(~IsNone(cr) /\ Val(cr) >= 7000, Alert("cardiac_concern", "danger"))

Alerts_Ungated(sqi, bpm, rmssd, lf_hf, cvrr, psi, fscr, cr) ==
    When(sqi <= LOW_SQI, Alert("signal_quality", "info"))
    \o GatedAlerts(bpm, rmssd, lf_hf, cvrr, psi, fscr, cr)

Alerts_FirstMatchOnly(sqi, bpm, rmssd, lf_hf, cvrr, psi, fscr, cr) ==
    When(sqi < LOW_SQI, Alert("signal_quality", "info"))
    \o (IF sqi >= LOW_SQI
            THEN LET all == GatedAlerts(bpm, rmssd, lf_hf, cvrr, psi, fscr, cr)
                 IN  IF Len(all) > 1 THEN <<all[1]>> ELSE all
            ELSE <<>>)

\* the alerts of a cycle (the messages' texts are left out)
Alerts(sqi, bpm, rmssd, lf_hf, cvrr, psi, fscr, cr) ==
    When(sqi < LOW_SQI, Alert("signal_quality", "info"))
    \o (IF sqi >= LOW_SQI
            THEN GatedAlerts(bpm, rmssd, lf_hf, cvrr, psi, fscr, cr)
            ELSE <<>>)

(***************************************************************************)
(* Publishing: a topic is the sequence of its segments                     *)
(***************************************************************************)
publish_AlertsFirst(team, ff, payload, alerts) ==
    <<[topic |-> <<"Telemetry", team, ff, "alerts">>,
       body |-> [teamId |-> team, ffId |-> ff,
                 observedAt |-> payload.observedAt, alerts |-> alerts]],
      [topic |-> <<"Telemetry", team, ff>>, body |-> payload]>>

publish(team, ff, payload, alerts) ==
    <<[topic |-> <<"Telemetry", team, ff>>, body |-> payload]>>
    \o (IF alerts # <<>>
            THEN <<[topic |-> <<"Telemetry", team, ff, "alerts">>,
                    body |-> [teamId |-> team, ffId |-> ff,
                              observedAt |-> payload.observedAt,
                              alerts |-> alerts]]>>
            ELSE <<>>)

(***************************************************************************)
(* Inputs of on_message                                                    *)
(***************************************************************************)
MaxMsgs == 2        \* messages delivered in a run

\* a frame of n samples base, base + 1, ... stamped ts
Frame(ts, n, base) == PackPmd(0, ts, PackRamp(base, n))

P_Short == PackBundle(<<Frame(1000, 50, -2)>>)
P_JustReady == PackBundle(<<Frame(1000, 62, 1000)>>)
P_Few == PackBundle(<<Frame(1250, 3, -5)>>)
P_Hundred == PackBundle(<<Frame(2000, 100, 2000)>>)
P_Window == PackBundle(<<Frame(1000, 300, 3000)>>)
P_Overflow == PackBundle(<<Frame(1000, 300, 10000), Frame(1001, 100, 20000),
                           Frame(3001, 300, 30000)>>)
P_Late == PackBundle(<<Frame(4000, 100, 4000)>>)
\* a frame stamped 0.1 s after the frames stamped 1000
P_Burst == PackBundle(<<Frame(1100, 3, -9)>>)
\* count says 2, the second frame is cut short
P_CutShort == SubSeq(PackBundle(<<Frame(1000, 62, 1000), Frame(2000, 100, 2000)>>),
                     1, 9 + 2 + 10 + 3 * 62 + 2 + 40)
\* a frame of another type, a frame without samples, a frame under 10 bytes
P_NoSamples == PackBundle(<<PackPmd(1, 1000, PackRamp(7, 5)), Frame(1500, 0, 0),
                            <<0, 1, 2>> >>)
\* 100 samples, then 1.666 s later 100 more: the estimate moves to 60.002 Hz
P_Drift == PackBundle(<<Frame(1000, 100, 5000), Frame(2666, 100, 5100)>>)
\* a frame of another type and a frame under 10 bytes
P_Undecodable == PackBundle(<<PackPmd(1, 1000, PackRamp(7, 5)), <<0, 1, 2>> >>)
P_BadMagic == <<69, 67, 71, 50>> \o SubSeq(P_Short, 5, Len(P_Short))

T_A == <<"raw", "ECG", "Team_A", "FF_A">>
T_B == <<"raw", "ECG", "Team_A", "FF_B">>
T_Bad == <<"raw", "EEG", "Team_A", "FF_A">>

Messages ==
    {<<T_A, p>> : p \in {P_Short, P_JustReady, P_Few, P_Hundred, P_Window,
                         P_Overflow, P_Late, P_Burst, P_CutShort, P_NoSamples,
                         P_Undecodable, P_BadMagic}}
    \cup {<<T_B, p>> : p \in {P_JustReady, P_Few, P_Window, P_Drift}}
    \cup {<<T_Bad, P_Window>>, <<<<"raw", "ECG", "Team_A">>, P_Window>>,
          <<T_A \o <<"x">>, P_Few>>}

\* the values time.time() returns (seconds)
Times == {100, 130}

(***************************************************************************)
(* on_message                                                              *)
(***************************************************************************)
NoCycle(kind, key) ==
    [kind |-> kind, key |-> key, fs |-> 0, n |-> 0, sqi |-> 0,
     peaks |-> <<>>, alerts |-> <<>>, window |-> <<>>]

Put_ResetsOthers(d, key, st) ==
    [k \in DOMAIN d \cup {key} |-> IF k = key THEN st ELSE StreamState]

\* states[key] = st
Put(d, key, st) == [k \in DOMAIN d \cup {key} |-> IF k = key THEN st ELSE d[k]]

Tail_n_Oldest(buf, n) == IF n = 0 THEN buf ELSE SubSeq(buf, 1, n)

\* list(st.buf)[-n:]
Tail_n(buf, n) == IF n = 0 THEN buf ELSE LastN(buf, n)

Complete_EstimateAfterUpdate(key, st, fs, n, sqi, peaks, rr0, fd, sampen, t_now) ==
    LET team == key[1]
        ff == key[2]
        rr == clean_rr(rr0)
        td == time_domain_hrv(rr)
        si == baevsky_stress_index(rr)
        ect == EctopyRatio(rr)
        bpm == Val(td.bpm)
        tc_before == core_temp_estimate_c(bpm, st.baseline_hr)
        st2 == IF sqi >= BASELINE_SQI
                   THEN update_baselines(st, bpm, td.rmssd_ms, tc_before)
                   ELSE st
        tc_est == core_temp_estimate_c(bpm, st2.baseline_hr)
        psi == physiological_strain_index(bpm, tc_est)
        st3 == update_heat_auc(st2, tc_est, t_now)
        fscr == fatigue_score(td.bpm, td.rmssd_ms, fd.lf_hf, si, sampen)
        cr == cardiac_risk_score(sqi, td.bpm, td.cvrr, Some(ect))
        metrics ==
            [teamId |-> team, ffId |-> ff, observedAt |-> t_now,
             source |-> "biomed_agent_strong",
             fs_est_hz |-> RoundDiv(fs, 10), sqi |-> sqi,
             bpm |-> td.bpm, rr_ms_mean |-> td.rr_ms_mean, rr_ms_med |-> td.rr_ms_med,
             sdnn_ms |-> td.sdnn_ms, rmssd_ms |-> td.rmssd_ms,
             pnn50_pct |-> td.pnn50_pct, pnn20_pct |-> td.pnn20_pct,
             cvrr |-> td.cvrr, sd1_ms |-> td.sd1_ms, sd2_ms |-> td.sd2_ms,
             n_rr |-> td.n_rr,
             lf_power |-> fd.lf_power, hf_power |-> fd.hf_power, lf_hf |-> fd.lf_hf,
             sampen |-> sampen, stress_index |-> si, ectopy_ratio |-> ect,
             tc_est_c |-> tc_est, psi |-> psi,
             heat_auc_degC_sec |-> st3.auc_area,
             heat_auc_since |-> st3.auc_start_iso,
             baseline_hr_bpm |-> RoundDiv(st3.baseline_hr, 10),
             baseline_rmssd_ms |-> st3.baseline_rmssd,
             baseline_tc_c |-> RoundDiv(st3.baseline_tc, 10),
             fatigue_score_0_100 |-> fscr,
             cardiac_risk_score_0_100 |-> cr]
        alerts == Alerts(sqi, bpm, td.rmssd_ms, fd.lf_hf, td.cvrr, psi, fscr, cr)
    IN  [st |-> st3,
         out |-> publish(team, ff, metrics, alerts),
         last |-> [kind |-> "completed", key |-> key, fs |-> fs, n |-> n,
                   sqi |-> sqi, peaks |-> peaks, alerts |-> alerts,
                   window |-> Tail_n(st.buf, n)]]

Complete_HeatGated(key, st, fs, n, sqi, peaks, rr0, fd, sampen, t_now) ==
    LET team == key[1]
        ff == key[2]
        rr == clean_rr(rr0)
        td == time_domain_hrv(rr)
        si == baevsky_stress_index(rr)
        ect == EctopyRatio(rr)
        bpm == Val(td.bpm)
        tc_est == core_temp_estimate_c(bpm, st.baseline_hr)
        psi == physiological_strain_index(bpm, tc_est)
        st2 == IF sqi >= BASELINE_SQI
                   THEN update_baselines(st, bpm, td.rmssd_ms, tc_est)
                   ELSE st
        st3 == IF sqi >= BASELINE_SQI THEN update_heat_auc(st2, tc_est, t_now) ELSE st2
        fscr == fatigue_score(td.bpm, td.rmssd_ms, fd.lf_hf, si, sampen)
        cr == cardiac_risk_score(sqi, td.bpm, td.cvrr, Some(ect))
        metrics ==
            [teamId |-> team, ffId |-> ff, observedAt |-> t_now,
             source |-> "biomed_agent_strong",
             fs_est_hz |-> RoundDiv(fs, 10), sqi |-> sqi,
             bpm |-> td.bpm, rr_ms_mean |-> td.rr_ms_mean, rr_ms_med |-> td.rr_ms_med,
             sdnn_ms |-> td.sdnn_ms, rmssd_ms |-> td.rmssd_ms,
             pnn50_pct |-> td.pnn50_pct, pnn20_pct |-> td.pnn20_pct,
             cvrr |-> td.cvrr, sd1_ms |-> td.sd1_ms, sd2_ms |-> td.sd2_ms,
             n_rr |-> td.n_rr,
             lf_power |-> fd.lf_power, hf_power |-> fd.hf_power, lf_hf |-> fd.lf_hf,
             sampen |-> sampen, stress_index |-> si, ectopy_ratio |-> ect,
             tc_est_c |-> tc_est, psi |-> psi,
             heat_auc_degC_sec |-> st3.auc_area,
             heat_auc_since |-> st3.auc_start_iso,
             baseline_hr_bpm |-> RoundDiv(st3.baseline_hr, 10),
             baseline_rmssd_ms |-> st3.baseline_rmssd,
             baseline_tc_c |-> RoundDiv(st3.baseline_tc, 10),
             fatigue_score_0_100 |-> fscr,
             cardiac_risk_score_0_100 |-> cr]
        alerts == Alerts(sqi, bpm, td.rmssd_ms, fd.lf_hf, td.cvrr, psi, fscr, cr)
    IN  [st |-> st3,
         out |-> publish(team, ff, metrics, alerts),
         last |-> [kind |-> "completed", key |-> key, fs |-> fs, n |-> n,
                   sqi |-> sqi, peaks |-> peaks, alerts |-> alerts,
                   window |-> Tail_n(st.buf, n)]]

\* the cycle from "rr = clean_rr(rr)" to publish, for the values the
\* numerical libraries and the clock give: the stream state it leaves, the
\* messages it publishes and the record of the cycle
Complete(key, st, fs, n, sqi, peaks, rr0, fd, sampen, t_now) ==
    LET team == key[1]
        ff == key[2]
        rr == clean_rr(rr0)
        td == time_domain_hrv(rr)
        si == baevsky_stress_index(rr)
        ect == EctopyRatio(rr)
        bpm == Val(td.bpm)
        tc_est == core_temp_estimate_c(bpm, st.baseline_hr)
        psi == physiological_strain_index(bpm, tc_est)
        st2 == IF sqi >= BASELINE_SQI
                   THEN update_baselines(st, bpm, td.rmssd_ms, tc_est)
                   ELSE st
        st3 == update_heat_auc(st2, tc_est, t_now)
        fscr == fatigue_score(td.bpm, td.rmssd_ms, fd.lf_hf, si, sampen)
        cr == cardiac_risk_score(sqi, td.bpm, td.cvrr, Some(ect))
        metrics ==
            [teamId |-> team, ffId |-> ff, observedAt |-> t_now,
             source |-> "biomed_agent_strong",
             fs_est_hz |-> RoundDiv(fs, 10), sqi |-> sqi,
             bpm |-> td.bpm, rr_ms_mean |-> td.rr_ms_mean, rr_ms_med |-> td.rr_ms_med,
             sdnn_ms |-> td.sdnn_ms, rmssd_ms |-> td.rmssd_ms,
             pnn50_pct |-> td.pnn50_pct, pnn20_pct |-> td.pnn20_pct,
             cvrr |-> td.cvrr, sd1_ms |-> td.sd1_ms, sd2_ms |-> td.sd2_ms,
             n_rr |-> td.n_rr,
             lf_power |-> fd.lf_power, hf_power |-> fd.hf_power, lf_hf |-> fd.lf_hf,
             sampen |-> sampen, stress_index |-> si, ectopy_ratio |-> ect,
             tc_est_c |-> tc_est, psi |-> psi,
             heat_auc_degC_sec |-> st3.auc_area,
             heat_auc_since |-> st3.auc_start_iso,
             baseline_hr_bpm |-> RoundDiv(st3.baseline_hr, 10),
             baseline_rmssd_ms |-> st3.baseline_rmssd,
             baseline_tc_c |-> RoundDiv(st3.baseline_tc, 10),
             fatigue_score_0_100 |-> fscr,
             cardiac_risk_score_0_100 |-> cr]
        alerts == Alerts(sqi, bpm, td.rmssd_ms, fd.lf_hf, td.cvrr, psi, fscr, cr)
    IN  [st |-> st3,
         out |-> publish(team, ff, metrics, alerts),
         last |-> [kind |-> "completed", key |-> key, fs |-> fs, n |-> n,
                   sqi |-> sqi, peaks |-> peaks, alerts |-> alerts,
                   window |-> Tail_n(st.buf, n)]]

\* The parsed frames and the stream state after the loop are bound once
\* (a one-element \E), as the handler computes them once.
on_message(topic, payload) ==
    LET tf == topic_to_team_ff(topic)
    IN  IF IsNone(tf)
        THEN /\ out' = <<>>
             /\ last' = NoCycle("no_topic", <<>>)
             /\ UNCHANGED <<states, filt_cache, appended>>
        ELSE \E pkts \in {parse_ecg1_bundle(payload)} :
        IF pkts = <<>>
        THEN /\ out' = <<>>
             /\ last' = NoCycle("no_pkts", Val(tf))
             /\ UNCHANGED <<states, filt_cache, appended>>
        ELSE
        LET key == Val(tf)
            st0 == IF key \in DOMAIN states THEN states[key] ELSE StreamState
        IN  \E st \in {IngestPackets(st0, pkts, 1)} :
            LET fs == st.fs_est
                need == Need(fs)
                n == Min((WINDOW_SEC * fs) \div 1000000, Len(st.buf))
            IN  /\ appended' = Put(appended, key,
                                   (IF key \in DOMAIN appended THEN appended[key] ELSE <<>>)
                                   \o SamplesOf(pkts, 1))
                /\ IF Len(st.buf) < need
                   THEN /\ states' = Put(states, key, st)
                        /\ out' = <<>>
                        /\ last' = [NoCycle("accumulating", key) EXCEPT !.fs = fs]
                        /\ UNCHANGED filt_cache
                   ELSE /\ filt_cache' = apply_filters(n, fs, filt_cache)
                        /\ \E sqi \in ecg_sqi(n, fs), peaks \in qrs_detect(n, fs) :
                             LET rr == rr_from_peaks(peaks, fs)
                             IN  IF IsNone(rr)
                                 THEN /\ states' = Put(states, key, st)
                                      /\ out' = <<>>
                                      /\ last' = [kind |-> "aborted", key |-> key,
                                                  fs |-> fs, n |-> n, sqi |-> sqi,
                                                  peaks |-> peaks, alerts |-> <<>>,
                                                  window |-> Tail_n(st.buf, n)]
                                 ELSE IF IsNone(time_domain_hrv(clean_rr(Val(rr))).bpm)
                                 THEN /\ states' = Put(states, key, st)
                                      /\ out' = <<>>
                                      /\ last' = [kind |-> "no_bpm", key |-> key,
                                                  fs |-> fs, n |-> n, sqi |-> sqi,
                                                  peaks |-> peaks, alerts |-> <<>>,
                                                  window |-> Tail_n(st.buf, n)]
                                 ELSE \E fd \in freq_domain_hrv(clean_rr(Val(rr))),
                                         sampen \in sample_entropy(clean_rr(Val(rr))),
                                         t_now \in Times :
                                      \E c \in {Complete(key, st, fs, n, sqi, peaks,
                                                         Val(rr), fd, sampen, t_now)} :
                                         /\ states' = Put(states, key, c.st)
                                         /\ out' = c.out
                                         /\ last' = c.last

Deliver ==
    /\ nmsgs < MaxMsgs
    /\ \E m \in Messages : on_message(m[1], m[2])
    /\ nmsgs' = nmsgs + 1
    /\ UNCHANGED <<din, dout>>

NoInput == [fn |-> "none", arg |-> <<>>, meta |-> <<>>]

MainIdle ==
    /\ states = [k \in {} |-> StreamState]
    /\ filt_cache = [k \in {} |-> 0]
    /\ appended = [k \in {} |-> <<>>]
    /\ out = <<>>
    /\ last = NoCycle("init", <<>>)
    /\ nmsgs = 0

Init ==
    /\ MainIdle
    /\ din = NoInput
    /\ dout = None

Next == Deliver

Spec == Init /\ [][Next]_vars

(***************************************************************************)
(* Properties of on_message                                                *)
(***************************************************************************)
SignalQualityInfo == [type |-> "signal_quality", severity |-> "info"]

\* the cycle of the last message got as far as beat detection
Analysed == last.kind \in {"aborted", "no_bpm", "completed"}

\* the intervals between successive peaks that last strictly between 0.25 s
\* and 2.5 s at the rate fs (mHz)
UsableRR(peaks, fs) ==
    Cardinality({i \in 1..(Len(peaks) - 1) :
                    /\ 4000 * (peaks[i + 1] - peaks[i]) > fs
                    /\ 400 * (peaks[i + 1] - peaks[i]) < fs})

\* C1: a cycle whose detected peaks give fewer than 3 usable RR intervals
\* aborts and publishes nothing, neither metrics nor alerts, whatever the
\* window and the quality score.
C1_NothingPublishedUnderThreeRR ==
    (Analysed /\ UsableRR(last.peaks, last.fs) < 3)
        => (last.kind = "aborted" /\ out = <<>>)

\* C1 witness: a cycle of full quality with four peaks or more, none of
\* whose intervals is usable, has aborted without publishing.
C1_Witness ==
    /\ last.kind = "aborted"
    /\ last.sqi = 100
    /\ Len(last.peaks) >= 4
    /\ UsableRR(last.peaks, last.fs) < 3
    /\ out = <<>>

\* C2: a completed cycle with sqi < LOW_SQI raises exactly the one alert
\* signal_quality/info; a completed cycle with sqi >= LOW_SQI raises no
\* signal_quality alert.
C2_LowQualityGatesAlerts ==
    last.kind = "completed" =>
        /\ last.sqi < LOW_SQI => last.alerts = <<SignalQualityInfo>>
        /\ last.sqi >= LOW_SQI =>
               \A i \in 1..Len(last.alerts) : last.alerts[i].type # "signal_quality"

\* C2 witness: a completed cycle of low quality whose heart rate is above
\* the tachycardia threshold carries the signal_quality alert alone.
C2_Witness ==
    /\ last.kind = "completed"
    /\ last.sqi < LOW_SQI
    /\ Val(out[1].body.bpm) > TACHY_BPM
    /\ last.alerts = <<SignalQualityInfo>>

MetricsAt ==
    {i \in 1..Len(out) : out[i].topic = <<"Telemetry", last.key[1], last.key[2]>>}

AlertsAt ==
    {i \in 1..Len(out) :
        out[i].topic = <<"Telemetry", last.key[1], last.key[2], "alerts">>}

\* C3: a completed cycle publishes exactly one metrics message on
\* Telemetry/<team>/<ff>; it publishes an alerts message on
\* Telemetry/<team>/<ff>/alerts exactly when its alert list is not empty,
\* carrying that list, after the metrics message; it publishes nothing else.
C3_MetricsThenAlerts ==
    last.kind = "completed" =>
        /\ Cardinality(MetricsAt) = 1
        /\ Cardinality(AlertsAt) = (IF last.alerts # <<>> THEN 1 ELSE 0)
        /\ MetricsAt \cup AlertsAt = 1..Len(out)
        /\ \A i \in AlertsAt :
               /\ out[i].body.alerts = last.alerts
               /\ \A j \in MetricsAt : j < i

\* C3 witness: a completed cycle of good quality has published its metrics
\* message and then its alerts message.
C3_Witness ==
    /\ last.kind = "completed"
    /\ last.sqi >= LOW_SQI
    /\ Len(out) = 2
    /\ out[1].topic = <<"Telemetry", last.key[1], last.key[2]>>
    /\ out[2].topic = <<"Telemetry", last.key[1], last.key[2], "alerts">>

\* a completed cycle without alerts publishes its metrics message alone
C3_QuietCycle ==
    /\ last.kind = "completed"
    /\ last.alerts = <<>>
    /\ Len(out) = 1

\* C4: the rate estimate of every key stays within 50 Hz .. 300 Hz.
C4_FsEstInRange ==
    \A k \in DOMAIN states :
        states[k].fs_est >= 50000 /\ states[k].fs_est <= 300000

\* C4 witness: a 3-sample frame stamped 0.1 s after an earlier frame of the
\* key (an instantaneous rate of 620 Hz or more) left the estimate at its
\* default.
C4_Witness ==
    \E k \in DOMAIN states :
        /\ states[k].last_ts = Some(1100)
        /\ Len(appended[k]) > 3
        /\ states[k].fs_est = DEFAULT_FS

\* C5: the buffer of every key holds at most BufMaxLen samples, and they
\* are the most recent min(appended, BufMaxLen) samples in arrival order.
C5_RingBuffer ==
    \A k \in DOMAIN states :
        /\ Len(states[k].buf) <= BufMaxLen
        /\ states[k].buf =
               LastN(appended[k], Min(Len(appended[k]), BufMaxLen))

\* C5 witness: a key has received more samples than the buffer holds, and
\* its buffer is full.
C5_Witness ==
    \E k \in DOMAIN states :
        /\ Len(appended[k]) > BufMaxLen
        /\ Len(states[k].buf) = BufMaxLen

\* in the table sts, the key holds the samples of the minimum analyzable
\* duration at its rate estimate
ReadyIn(sts, k) ==
    /\ k \in DOMAIN sts
    /\ Len(sts[k].buf) >= (MIN_SEC_FOR_ANALYSIS * sts[k].fs_est) \div 1000000

Ready(k) == ReadyIn(states, k)

\* C6 as stated: a key that is Ready at the end of a packet is Ready at the
\* end of every later packet.
C6_ReadyForever ==
    [][\A k \in DOMAIN states : Ready(k) => ReadyIn(states', k)]_vars

\* C6 amended: a key that is Ready stays Ready at the end of a later packet
\* unless that packet raised its rate estimate; and a packet with a readable
\* frame is analysed exactly when its key is Ready at the end of it.
C6_ReadyUnlessFsRises ==
    [][/\ \A k \in DOMAIN states :
              (Ready(k) /\ states'[k].fs_est <= states[k].fs_est)
                  => ReadyIn(states', k)
       /\ last'.kind = "accumulating" => ~ReadyIn(states', last'.key)
       /\ last'.kind \in {"aborted", "no_bpm", "completed"}
              => ReadyIn(states', last'.key)
      ]_vars

\* cardiac_risk_score is null for every quality below 0.30, at the extremes
\* of bpm (1/100), CVRR and ectopy ratio (1/1000) and without them
CardiacGate ==
    \A q \in 0..29 :
        \A b \in {None, Some(3000), Some(8000), Some(25000)},
           c \in {None, Some(0), Some(1000)},
           e \in {None, Some(0), Some(1000)} :
            cardiac_risk_score(q, b, c, e) = None

\* C12: cardiac_risk_score is null whenever the quality score is below 0.30;
\* a published record with quality below 0.30 carries no cardiac risk score
\* and no cardiac_concern alert accompanies it.
C12_NoCardiacScoreUnderLowQuality ==
    /\ CardiacGate
    /\ (last.kind = "completed" /\ out[1].body.sqi < 30) =>
           /\ out[1].body.cardiac_risk_score_0_100 = None
           /\ \A i \in 1..Len(last.alerts) : last.alerts[i].type # "cardiac_concern"
           /\ \A j \in 2..Len(out) : \A i \in 1..Len(out[j].body.alerts) :
                  out[j].body.alerts[i].type # "cardiac_concern"

\* C12 witness: a record of quality 0.29 with a heart rate above 175 bpm and
\* an irregular rhythm was published without a cardiac risk score.
C12_Witness ==
    /\ last.kind = "completed"
    /\ out[1].body.sqi = 29
    /\ Val(out[1].body.bpm) > 17500
    /\ Val(out[1].body.cvrr) > 250
    /\ out[1].body.cardiac_risk_score_0_100 = None

\* C14 as stated: the ectopy ratio of a published record is the fraction of
\* the raw RR series (range-filtered, before clean_rr) lying more than
\* 3 x MAD from that series' median.
C14_EctopyOnRawRR ==
    last.kind = "completed" =>
        out[1].body.ectopy_ratio
            = EctopyRatio(Val(rr_from_peaks(last.peaks, last.fs)))

\* the three baselines of a key; a key without a stream state has those of
\* a new StreamState
BaselinesIn(sts, k) ==
    LET st == IF k \in DOMAIN sts THEN sts[k] ELSE StreamState
    IN  [hr |-> st.baseline_hr, rmssd |-> st.baseline_rmssd, tc |-> st.baseline_tc]

\* old moved toward v with weight w / d, rounded down
Ewma(old, v, w, d) == ((d - w) * old + w * v) \div d

\* update_baselines leaves the RMSSD baseline alone when RMSSD is null
RmssdSkipped ==
    \A b \in {3000, 8500, 20000}, tc \in {36800, 38870} :
        LET st == update_baselines(StreamState, b, None, tc)
        IN  /\ st.baseline_rmssd = StreamState.baseline_rmssd
            /\ st.baseline_hr = Ewma(StreamState.baseline_hr, b, 2, 100)
            /\ st.baseline_tc = Ewma(StreamState.baseline_tc, tc, 5, 1000)

\* C20: the three baselines of a key change only in a completed cycle of
\* that key whose quality is at least BASELINE_SQI; messages that leave the
\* buffer under the minimum duration, aborted cycles and completed cycles
\* of lower quality leave them unchanged.  When updated, the HR and RMSSD
\* baselines move toward the cycle's bpm and RMSSD with weight 0.02 and the
\* core temperature baseline toward the cycle's estimate with weight 0.005,
\* the RMSSD baseline being skipped when RMSSD is null.
C20_BaselineUpdates ==
    [][/\ RmssdSkipped
       /\ \A k \in DOMAIN states' :
            LET old == BaselinesIn(states, k)
                new == BaselinesIn(states', k)
            IN  IF last'.kind = "completed" /\ last'.key = k /\ last'.sqi >= BASELINE_SQI
                THEN LET m == out'[1].body
                     IN  /\ new.hr = Ewma(old.hr, Val(m.bpm), 2, 100)
                         /\ new.rmssd = IF m.rmssd_ms = None THEN old.rmssd
                                         ELSE Ewma(old.rmssd, Val(m.rmssd_ms), 2, 100)
                         /\ new.tc = Ewma(old.tc, m.tc_est_c, 5, 1000)
                ELSE new = old]_vars

\* C20 witness: a completed cycle of quality 0.35 moved the three
\* baselines of its key off the initial 85 bpm, 30 ms and 37.0 degC.
C20_Witness ==
    /\ last.kind = "completed" /\ last.sqi = BASELINE_SQI
    /\ states[last.key].baseline_hr > StreamState.baseline_hr
    /\ states[last.key].baseline_rmssd # StreamState.baseline_rmssd
    /\ states[last.key].baseline_tc > StreamState.baseline_tc

\* a completed cycle of quality 0.30 left the baselines of a new key alone
C20_LowerQuality ==
    /\ last.kind = "completed" /\ last.sqi = 30 /\ nmsgs = 1
    /\ BaselinesIn(states, last.key) = BaselinesIn(<<>>, last.key)

\* int(WINDOW_SEC * fs)
WindowLen(fs) == (WINDOW_SEC * fs) \div 1000000

\* the samples the message just handled appended for its key
NewSamples ==
    LET k == last'.key
        before == IF k \in DOMAIN appended THEN appended[k] ELSE <<>>
    IN  SubSeq(appended'[k], Len(before) + 1, Len(appended'[k]))

\* C23 as stated: whenever an analysis runs, the window is the contiguous
\* tail of the key's ring buffer, includes every sample appended by the
\* triggering message, and has exactly int(WINDOW_SEC * fs_est) samples.
C23_FixedDurationWindow ==
    [][last'.kind \in {"aborted", "no_bpm", "completed"} =>
        LET w == last'.window
            buf == states'[last'.key].buf
        IN  /\ Len(w) = WindowLen(last'.fs)
            /\ Len(w) <= Len(buf) /\ w = LastN(buf, Len(w))
            /\ Len(NewSamples) <= Len(w) /\ LastN(w, Len(NewSamples)) = NewSamples]_vars

\* C23, amended: whenever an analysis runs, the window is the contiguous
\* tail of the key's ring buffer (the most recent samples, in arrival
\* order) of min(int(WINDOW_SEC * fs_est), len(buf)) samples: the whole
\* buffer while it holds between the minimum duration and the window
\* duration, the configured duration once it holds more.  It includes
\* every sample appended by the triggering message unless the message
\* carries more samples than the window, and then it holds the last of
\* them.
C23_WindowIsBufferTail ==
    [][last'.kind \in {"aborted", "no_bpm", "completed"} =>
        LET w == last'.window
            k == last'.key
            buf == states'[k].buf
            n == Len(w)
        IN  /\ n = Min(WindowLen(last'.fs), Len(buf))
            /\ n >= Need(last'.fs)
            /\ w = LastN(buf, n)
            /\ w = LastN(appended'[k], n)
            /\ IF Len(NewSamples) <= n
               THEN LastN(w, Len(NewSamples)) = NewSamples
               ELSE w = LastN(NewSamples, n)]_vars

\* C23 witness: an analysis ran on a buffer of 62 samples, more than the
\* minimum duration (60) and less than the window duration (120): the
\* window is the whole buffer.
C23_Witness ==
    /\ Analysed
    /\ Len(last.window) = 62 /\ WindowLen(last.fs) = 120
    /\ last.window = states[last.key].buf

\* an analysis ran on the last 120 samples of a longer buffer
C23_FullWindow ==
    /\ Analysed
    /\ Len(last.window) = WindowLen(last.fs)
    /\ Len(states[last.key].buf) > Len(last.window)
    /\ last.window = LastN(appended[last.key], Len(last.window))

\* C24: handling a message for one (team, subject) key leaves the
\* StreamState of every other key unchanged: its ring buffer, rate
\* estimate, last timestamp and sample count, baselines and heat
\* accumulator; and no key loses its state.
C24_OtherKeysUntouched ==
    [][\A k \in DOMAIN states :
          /\ k \in DOMAIN states'
          /\ k # last'.key => states'[k] = states[k]]_vars

\* C24 witness: after a message for each of two keys, the second analysed
\* to completion, the first key still has the buffer, the timestamp and the
\* accumulator its own message left.
C24_Witness ==
    /\ nmsgs = 2 /\ last.kind = "completed"
    /\ \E k \in DOMAIN states :
          /\ k # last.key
          /\ states[k].buf = appended[k] /\ Len(states[k].buf) >= 60
          /\ states[k].last_ts # None
          /\ states[k].auc_start_iso # None

\* the topic has the form raw/ECG/<team>/<subject>, further levels allowed
WellFormedTopic(topic) == Len(topic) >= 4 /\ topic[1] = "raw" /\ topic[2] = "ECG"

\* no frame of the payload decodes: the bundle gives no frame, or every
\* frame it gives is refused by parse_polar_pmd_ecg_packet
NoDecodableFrame(payload) ==
    LET pkts == parse_ecg1_bundle(payload)
    IN  \A i \in 1..Len(pkts) : parse_polar_pmd_ecg_packet(pkts[i]).none

Malformed(m) ==
    \/ ~WellFormedTopic(m[1])
    \/ Len(m[2]) < 9
    \/ SubSeq(m[2], 1, 4) # MAGIC
    \/ NoDecodableFrame(m[2])

\* C25: a malformed message (topic not of the form raw/ECG/<team>/<subject>,
\* payload shorter than the header, bad magic tag, or no decodable frame)
\* is skipped: it creates no StreamState, changes no existing StreamState
\* and publishes nothing.
C25_MalformedSkipped ==
    [][\A m \in Messages :
          (Malformed(m) /\ on_message(m[1], m[2])) =>
              (states' = states /\ out' = <<>>)]_vars

\* what the handler skips: the messages topic_to_team_ff refuses and those
\* of which parse_ecg1_bundle returns no frame
C25_SkippedBeforeIngest ==
    [][\A m \in Messages :
          ((topic_to_team_ff(m[1]) = None \/ parse_ecg1_bundle(m[2]) = <<>>)
           /\ on_message(m[1], m[2])) =>
              (states' = states /\ out' = <<>> /\ appended' = appended
               /\ filt_cache' = filt_cache)]_vars

\* a message whose frames all fail to decode is handled past the skip: it
\* appends nothing, and the cycle that follows is the one of a message that
\* brought no sample (a new key gets a StreamState, a key whose buffer holds
\* the minimum duration is analysed again)
C25_UndecodableFramesIngested ==
    [][(on_message(T_A, P_Undecodable) /\ last'.kind # "no_pkts") =>
          /\ last'.key \in DOMAIN states'
          /\ appended'[last'.key] = (IF last'.key \in DOMAIN appended
                                        THEN appended[last'.key] ELSE <<>>)
          /\ last'.kind \in {"accumulating", "aborted", "no_bpm", "completed"}
          /\ last'.kind = "accumulating" <=>
                 Len(states'[last'.key].buf) < Need(last'.fs)]_vars

\* the window of the last message was filtered (it holds two seconds)
Filtered == Analysed /\ last.n >= TwoSeconds(last.fs)

\* the rate for which the filters applied to the last window were designed
AppliedDesign == filt_cache[RoundDiv(last.fs, 10)]

\* C26: the filter pair applied to a window depends on the window's rounded
\* rate alone, whichever key or earlier exact rate populated the shared
\* cache first: the design applied is the one the window gets from an empty
\* cache; and a cache entry is never replaced or removed, so that each
\* rounded rate is designed at most once.
C26_DesignIndependentOfPopulator ==
    [][/\ \A k \in DOMAIN filt_cache :
             k \in DOMAIN filt_cache' /\ filt_cache'[k] = filt_cache[k]
       /\ Filtered' =>
             AppliedDesign' = apply_filters(last'.n, last'.fs, <<>>)[RoundDiv(last'.fs, 10)]
      ]_vars

\* what the cache does: entries are never replaced or removed, a filtered
\* window finds an entry for its rounded rate, and that entry was designed
\* for an exact rate within 0.005 Hz of the window's: its own on a miss,
\* the one of the first window that missed at this rounded rate on a hit
C26_DesignOfFirstMiss ==
    [][/\ \A k \in DOMAIN filt_cache :
             k \in DOMAIN filt_cache' /\ filt_cache'[k] = filt_cache[k]
       /\ Filtered' =>
             LET key == RoundDiv(last'.fs, 10)
             IN  /\ key \in DOMAIN filt_cache'
                 /\ DOMAIN filt_cache' \subseteq DOMAIN filt_cache \cup {key}
                 /\ RoundDiv(filt_cache'[key], 10) = key
                 /\ key \notin DOMAIN filt_cache => filt_cache'[key] = last'.fs
       /\ ~Filtered' => filt_cache' = filt_cache]_vars

\* a window at 60.002 Hz was filtered with the design made for 60.000 Hz
\* by another key
C26_ForeignDesign ==
    /\ Filtered /\ last.fs = 60002 /\ last.key = <<"Team_A", "FF_B">>
    /\ AppliedDesign = 60000

\* the same window, first at its rounded rate, was filtered with its own design
C26_OwnDesign ==
    /\ Filtered /\ last.fs = 60002 /\ last.key = <<"Team_A", "FF_B">>
    /\ AppliedDesign = 60002

\* C27: within a completed cycle the core temperature estimate and PSI are
\* computed from the HR baseline as it stood before this cycle's baseline
\* update; the quality-gated baseline update and then the heat accumulator
\* update (fed that estimate) come next; the scores and the alerts are
\* computed from the values of the record; and the published record
\* carries the post-update baselines and the post-update heat area.
C27_StageOrder ==
    [][last'.kind = "completed" =>
        LET k == last'.key
            old == IF k \in DOMAIN states THEN states[k] ELSE StreamState
            new == states'[k]
            m == out'[1].body
            bpm == Val(m.bpm)
            based == IF last'.sqi >= BASELINE_SQI
                         THEN update_baselines(old, bpm, m.rmssd_ms, m.tc_est_c)
                         ELSE old
            heated == update_heat_auc(based, m.tc_est_c, Val(new.auc_last_t))
        IN  /\ m.tc_est_c = core_temp_estimate_c(bpm, old.baseline_hr)
            /\ m.psi = physiological_strain_index(bpm, m.tc_est_c)
            /\ BaselinesIn(states', k) = BaselinesIn(Put(states, k, based), k)
            /\ new.auc_area = heated.auc_area
            /\ new.auc_last_tc = Some(m.tc_est_c)
            /\ new.auc_ref_tc = heated.auc_ref_tc
            /\ m.baseline_hr_bpm = RoundDiv(new.baseline_hr, 10)
            /\ m.baseline_rmssd_ms = new.baseline_rmssd
            /\ m.baseline_tc_c = RoundDiv(new.baseline_tc, 10)
            /\ m.heat_auc_degC_sec = new.auc_area
            /\ m.heat_auc_since = new.auc_start_iso
            /\ m.fatigue_score_0_100
                   = fatigue_score(m.bpm, m.rmssd_ms, m.lf_hf, m.stress_index, m.sampen)
            /\ m.cardiac_risk_score_0_100
                   = cardiac_risk_score(m.sqi, m.bpm, m.cvrr, Some(m.ectopy_ratio))
            /\ last'.alerts = Alerts(m.sqi, bpm, m.rmssd_ms, m.lf_hf, m.cvrr, m.psi,
                                     m.fatigue_score_0_100, m.cardiac_risk_score_0_100)
      ]_vars

\* C27 witness: the first completed cycle of a key, of quality 0.35 or
\* more, published an estimate computed from the initial HR baseline of
\* 85 bpm, which differs from the estimate the updated baseline gives, and
\* the record carries the updated baseline.
C27_Witness ==
    /\ last.kind = "completed" /\ last.sqi >= BASELINE_SQI /\ nmsgs = 1
    /\ LET m == out[1].body
           st == states[last.key]
       IN  /\ m.tc_est_c = core_temp_estimate_c(Val(m.bpm), StreamState.baseline_hr)
           /\ m.tc_est_c # core_temp_estimate_c(Val(m.bpm), st.baseline_hr)
           /\ st.baseline_hr # StreamState.baseline_hr
           /\ m.baseline_hr_bpm = RoundDiv(st.baseline_hr, 10)

\* the second completed cycle of a key published the area the heat
\* accumulator holds after its update, 30 s of trapezoid
C27_AreaAfterUpdate ==
    /\ last.kind = "completed" /\ nmsgs = 2
    /\ out[1].body.heat_auc_degC_sec # 0
    /\ out[1].body.heat_auc_degC_sec = states[last.key].auc_area
    /\ states[last.key].auc_last_t = Some(130)

\* the heat accumulator of a key; a key without a stream state has the one
\* of a new StreamState
HeatIn(sts, k) ==
    LET st == IF k \in DOMAIN sts THEN sts[k] ELSE StreamState
    IN  [start |-> st.auc_start_iso, ref |-> st.auc_ref_tc, area |-> st.auc_area,
         last_tc |-> st.auc_last_tc, last_t |-> st.auc_last_t]

\* C28: the heat accumulator is not quality-gated.  Every completed cycle
\* (one that publishes a record) applies update_heat_auc once to the
\* accumulator of its key, with the cycle's core temperature estimate,
\* whatever the quality score; aborted cycles, messages that leave the
\* buffer under the minimum duration, skipped messages and the cycles of
\* other keys leave the accumulator (start, reference, area, last time,
\* last temperature) unchanged.
C28_HeatNotGated ==
    [][\A k \in DOMAIN states' :
          IF last'.kind = "completed" /\ last'.key = k
          THEN LET old == IF k \in DOMAIN states THEN states[k] ELSE StreamState
                   t == Val(states'[k].auc_last_t)
               IN  /\ Len(out') >= 1
                   /\ states'[k].auc_last_t # None
                   /\ HeatIn(states', k)
                        = HeatIn(Put(states, k,
                                     update_heat_auc(old, out'[1].body.tc_est_c, t)), k)
          ELSE /\ HeatIn(states', k) = HeatIn(states, k)
               /\ last'.key = k => out' = <<>>]_vars

\* C28 witness: the second completed cycle of a key, of quality 0.29
\* (under LOW_SQI and under the baseline threshold), added to the heat area
\* and left the baselines alone.
C28_Witness ==
    /\ last.kind = "completed" /\ last.sqi = 29 /\ nmsgs = 2
    /\ states[last.key].auc_last_t = Some(130)
    /\ states[last.key].auc_area # 0
    /\ states[last.key].baseline_tc = StreamState.baseline_tc
    /\ last.alerts = <<SignalQualityInfo>>

\* an aborted cycle after a completed one left the accumulator at the
\* time of the completed one
C28_AbortedLeavesHeat ==
    /\ last.kind = "aborted" /\ nmsgs = 2
    /\ states[last.key].auc_start_iso # None
    /\ states[last.key].auc_area = 0

\* every time-domain statistic of the record is present, with at least 3
\* intervals and a heart rate strictly between 24 and 240 bpm
FullTimeDomain(m) ==
    /\ m.n_rr >= 3
    /\ m.bpm # None /\ Val(m.bpm) > 2400 /\ Val(m.bpm) < 24000
    /\ \A f \in {"sdnn_ms", "rmssd_ms", "pnn50_pct", "pnn20_pct", "cvrr",
                  "sd1_ms", "sd2_ms"} : m[f] # None

\* peaks every d samples at DEFAULT_FS (0.25 s is 15 samples, 2.5 s is 150),
\* the last interval e samples
SpacedPeaks ==
    {<<0, d, 2 * d, 3 * d, 3 * d + e>> : d \in {15, 16, 60, 149, 150}, e \in {16, 149}}

\* rr_from_peaks, clean_rr and time_domain_hrv in sequence give either no
\* series or a full set of time-domain statistics
FullOrNothing ==
    \A p \in SpacedPeaks :
        LET rr == rr_from_peaks(p, DEFAULT_FS)
        IN  \/ rr = None /\ p[2] \in {15, 150}
            \/ rr # None /\ p[2] \notin {15, 150}
                /\ FullTimeDomain(time_domain_hrv(clean_rr(Val(rr))))

\* C29: every published metrics record has n_rr >= 3, a non-null bpm
\* strictly between 24 and 240, and non-null SDNN, RMSSD, pNN50, pNN20,
\* CVRR, SD1 and SD2; PSI, the fatigue score and the ectopy ratio are
\* present as well, and only the frequency-domain values, sample entropy,
\* the stress index and the cardiac risk score can be null.
C29_PublishedRecordIsFull ==
    /\ FullOrNothing
    /\ Len(out) >= 1 =>
          LET m == out[1].body
          IN  /\ FullTimeDomain(m)
              /\ m.psi # None
              /\ m.fatigue_score_0_100 # None
              /\ m.heat_auc_since # None

\* C29 witness: a published record of 3 intervals has every time-domain
\* statistic and none of the frequency-domain values, sample entropy,
\* stress index and cardiac risk score.
C29_Witness ==
    /\ Len(out) >= 1
    /\ out[1].body.n_rr = 3
    /\ FullTimeDomain(out[1].body)
    /\ out[1].body.lf_power = None /\ out[1].body.hf_power = None
    /\ out[1].body.lf_hf = None
    /\ out[1].body.sampen = None /\ out[1].body.stress_index = None
    /\ out[1].body.cardiac_risk_score_0_100 = None

\* C6 witness: the second packet of a key that was Ready after its first
\* (300 samples, then 100 more at an unchanged estimate) was analysed to
\* completion.
C6_Witness ==
    /\ nmsgs = 2
    /\ last.kind = "completed"
    /\ Len(appended[last.key]) = 400
    /\ states[last.key].fs_est = DEFAULT_FS
    /\ Ready(last.key)

(***************************************************************************)
(* The decoding functions on bounded inputs                                *)
(***************************************************************************)
MaxBody == 5        \* bytes after the count byte of an enumerated bundle
MaxCount == 3       \* largest count byte of an enumerated bundle
MaxData == 5        \* bytes after the 10-byte header of an enumerated frame

BoundedSeq(A, n) == UNION {[1..k -> A] : k \in 0..n}

S24Bytes == {0, 1, 127, 128, 255}
BodyBytes == {0, 1, 2, 255}
DataBytes == {0, 128, 255}
TsValues == {0, 258, 16777216 + 65536 * 3 + 7, 2147483647}

S24Inputs == {[fn |-> "s24", arg |-> <<a, b, c>>, meta |-> <<>>] : a, b, c \in S24Bytes}

\* arbitrary bodies after a valid header, and payloads with a bad header
RawBundleInputs ==
    {[fn |-> "bundle", arg |-> MAGIC \o <<0, 0, 0, 0>> \o <<c>> \o body, meta |-> <<>>] :
        c \in 0..MaxCount, body \in BoundedSeq(BodyBytes, MaxBody)}
    \cup {[fn |-> "bundle", arg |-> SubSeq(PackBundle(<<<<1>>>>), 1, k), meta |-> <<>>] : k \in 0..12}
    \cup {[fn |-> "bundle", arg |-> <<69, 67, 71, 50>> \o <<0, 0, 0, 0, 1, 1, 0, 7>>, meta |-> <<>>]}

\* well-formed bundles: meta holds the frames that were packed
FrameChoices == {<<>>, <<7>>, <<0, 1>>, <<1, 0, 9>>}
WfBundleInputs ==
    {[fn |-> "bundle", arg |-> PackBundle(fs), meta |-> <<fs>>] :
        fs \in BoundedSeq(FrameChoices, MaxCount)}

\* frames: meta holds the timestamp that was packed
PmdInputs ==
    {[fn |-> "pmd", arg |-> PackPmd(t, ts, data), meta |-> <<ts>>] :
        t \in {0, 1}, ts \in TsValues, data \in BoundedSeq(DataBytes, MaxData)}
    \cup {[fn |-> "pmd", arg |-> SubSeq(PackPmd(0, 258, <<>>), 1, k), meta |-> <<258>>] : k \in 0..9}

DecodeInputs == S24Inputs \cup RawBundleInputs \cup WfBundleInputs \cup PmdInputs

InitDecode ==
    /\ MainIdle
    /\ din \in DecodeInputs
    /\ dout = None

Call_s24le_to_int ==
    /\ din.fn = "s24" /\ IsNone(dout)
    /\ dout' = Some(s24le_to_int(din.arg))
    /\ UNCHANGED <<states, filt_cache, appended, out, last, nmsgs, din>>

Call_parse_ecg1_bundle ==
    /\ din.fn = "bundle" /\ IsNone(dout)
    /\ dout' = Some(parse_ecg1_bundle(din.arg))
    /\ UNCHANGED <<states, filt_cache, appended, out, last, nmsgs, din>>

Call_parse_polar_pmd_ecg_packet ==
    /\ din.fn = "pmd" /\ IsNone(dout)
    /\ dout' = Some(parse_polar_pmd_ecg_packet(din.arg))
    /\ UNCHANGED <<states, filt_cache, appended, out, last, nmsgs, din>>

NextDecode ==
    \/ Call_s24le_to_int
    \/ Call_parse_ecg1_bundle
    \/ Call_parse_polar_pmd_ecg_packet

SpecDecode == InitDecode /\ [][NextDecode]_vars

(***************************************************************************)
(* Properties of the decoding functions, under SpecDecode                  *)
(***************************************************************************)
Applied(fn) == din.fn = fn /\ ~IsNone(dout)

\* the value of a 24-bit two's-complement little-endian triplet
Dec24(x3) ==
    LET v == x3[1] + 256 * x3[2] + 65536 * x3[3]
    IN  IF v >= 8388608 THEN v - 16777216 ELSE v

\* the number of declared frames that can be read in full, in order
RECURSIVE ReadableFrames(_, _, _)
ReadableFrames(payload, idx, todo) ==
    IF todo = 0 \/ idx + 2 > Len(payload) THEN 0
    ELSE LET L == payload[idx + 1] + 256 * payload[idx + 2]
         IN  IF idx + 2 + L > Len(payload) THEN 0
             ELSE 1 + ReadableFrames(payload, idx + 2 + L, todo - 1)

GoodHeader(payload) == Len(payload) >= 9 /\ SubSeq(payload, 1, 4) = MAGIC

HasUnreadableFrame(payload) ==
    GoodHeader(payload) /\ ReadableFrames(payload, 9, payload[9]) < payload[9]

\* the offset of the length prefix of frame i, given the frames before it
RECURSIVE PrefixOffset(_, _)
PrefixOffset(frames, i) ==
    IF i = 1 THEN 9 ELSE PrefixOffset(frames, i - 1) + 2 + Len(frames[i - 1])

\* C7 (as stated): a payload with a declared frame that cannot be read in
\* full decodes to the empty list.
C7_EmptyOnAnyUnreadableFrame ==
    (Applied("bundle") /\ HasUnreadableFrame(din.arg)) => Val(dout) = <<>>

\* What parse_ecg1_bundle returns on such payloads (C7): a payload with a
\* bad header decodes to the empty list; a payload with a declared frame
\* that cannot be read in full decodes to exactly the frames that precede
\* the first such frame, each with its declared length and bytes, and to the
\* empty list only when that frame is the first one.
C7_FramesBeforeFirstUnreadable ==
    Applied("bundle") =>
        LET payload == din.arg
            r == Val(dout)
        IN  /\ ~GoodHeader(payload) => r = <<>>
            /\ HasUnreadableFrame(payload) =>
                /\ Len(r) = ReadableFrames(payload, 9, payload[9])
                /\ Len(r) < payload[9]
                /\ \A i \in 1..Len(r) :
                     LET o == PrefixOffset(r, i)
                     IN  /\ payload[o + 1] + 256 * payload[o + 2] = Len(r[i])
                         /\ r[i] = SubSeq(payload, o + 3, o + 2 + Len(r[i]))
                /\ LET o == PrefixOffset(r, Len(r) + 1)
                   IN  \/ o + 2 > Len(payload)
                       \/ o + 2 + payload[o + 1] + 256 * payload[o + 2] > Len(payload)

\* C7: a payload whose second declared frame is cut short has been decoded,
\* and the first frame was returned.
C7_Witness ==
    /\ Applied("bundle")
    /\ HasUnreadableFrame(din.arg)
    /\ din.arg[9] = 2
    /\ Val(dout) = <<<<2>>>>

\* C8: a well-formed bundle of c frames decodes to exactly the c frames that
\* were packed, in order, and packing the decoded frames again gives the
\* input.
C8_BundleRoundTrip ==
    (Applied("bundle") /\ din.meta # <<>>) =>
        LET frames == din.meta[1]
            r == Val(dout)
        IN  /\ Len(r) = din.arg[9]
            /\ Len(r) = Len(frames)
            /\ \A i \in 1..Len(r) : r[i] = frames[i]
            /\ PackBundle(r) = din.arg

\* C8 witness: a bundle of three frames, one of them empty, was decoded.
C8_Witness ==
    /\ Applied("bundle")
    /\ din.meta = <<<< <<7>>, <<>>, <<1, 0, 9>> >>>>
    /\ Val(dout) = << <<7>>, <<>>, <<1, 0, 9>> >>

\* C9: s24le_to_int returns the 24-bit two's-complement value of the
\* triplet, within [-8388608, 8388607]; 0xFFFFFF is -1, 0x7FFFFF is 8388607
\* and 0x800000 is -8388608.
C9_SignExtension ==
    Applied("s24") =>
        LET r == Val(dout)
        IN  /\ r = Dec24(din.arg)
            /\ r >= -8388608 /\ r <= 8388607
            /\ din.arg = <<255, 255, 255>> => r = -1
            /\ din.arg = <<255, 255, 127>> => r = 8388607
            /\ din.arg = <<0, 0, 128>> => r = -8388608

\* C9 witness: 0x800000 was decoded to -8388608.
C9_Witness == Applied("s24") /\ din.arg = <<0, 0, 128>> /\ Val(dout) = -8388608

MaxRr == 4          \* intervals of an enumerated RR series

\* RR intervals in ms
RrValues == {300, 500, 520, 900, 2400}

Rep(v, n) == [i \in 1..n |-> v]

\* enumerated series of 1..MaxRr intervals
ShortRr == BoundedSeq(RrValues, MaxRr) \ {<<>>}

\* series of 9 to 11 intervals: a steady rhythm and one interval d ms longer
LongRr ==
    {Rep(v, n) \o <<v + d>> : v \in {500, 1000}, n \in 8..10, d \in {0, 50, 51, 120}}

RrInputs ==
    {[fn |-> f, arg |-> rr, meta |-> <<>>] :
        f \in {"clean_rr", "time_domain_hrv", "freq_domain_hrv", "baevsky_stress_index"},
        rr \in ShortRr \cup LongRr}

\* the metrics fatigue_score reads: bpm (1/100), rmssd_ms (1/10), lf_hf
\* (1/100), stress_index, sampen (1/100)
FatigueInputs ==
    {[fn |-> "fatigue_score",
      arg |-> [bpm |-> b, rmssd_ms |-> r, lf_hf |-> l, stress_index |-> x, sampen |-> e],
      meta |-> <<>>] :
        b \in {None, Some(6000), Some(10000), Some(14000), Some(18000), Some(20000)},
        r \in {None, Some(0), Some(125), Some(250), Some(400)},
        l \in {None, Some(100), Some(150), Some(275), Some(400), Some(500)},
        x \in {None, Some(100), Some(150), Some(275), Some(400)},
        e \in {None, Some(0), Some(60), Some(120), Some(200)}}

\* a stream state before a frame stamped ts (device time in TsUnitNs):
\* last_ts and last_n are set together, last_n to the length of a non-empty
\* sample list
FsInputs ==
    {[fn |-> "FsUpdate",
      arg |-> [st |-> [StreamState EXCEPT !.fs_est = f, !.last_ts = prev[1],
                                          !.last_n = prev[2]],
               ts |-> ts],
      meta |-> <<>>] :
        f \in {50100, 60000, 130000, 299000},
        prev \in {<<None, None>>}
                 \cup {<<Some(1000), Some(n)>> : n \in {3, 50, 100, 200, 300}},
        ts \in {900, 1000, 1001, 1002, 1010, 1250, 2000, 2999, 3000, 3001, 7000}}

\* the values the alert rules read
AlertInputs ==
    {[fn |-> "Alerts",
      arg |-> [sqi |-> q, bpm |-> b, rmssd_ms |-> r, lf_hf |-> l, cvrr |-> c,
               psi |-> p, fscr |-> f, cr |-> k],
      meta |-> <<>>] :
        q \in {29, 30},
        b \in {4400, 4500, 8000, 17000, 17100},
        r \in {None, Some(170), Some(180)},
        l \in {None, Some(250), Some(260)},
        c \in {None, Some(180), Some(190)},
        p \in {None, Some(6400), Some(6500), Some(7400), Some(7500)},
        f \in {None, Some(6900), Some(7000)},
        k \in {None, Some(6900), Some(7000)}}

\* a stream state before update_heat_auc(st, tc, t_now): the accumulator
\* is either untouched or was started at 100 s with reference ref, and was
\* last updated at 1000 s with temperature last
HeatInputs ==
    {[fn |-> "update_heat_auc", arg |-> [st |-> st, tc |-> tc, t_now |-> t], meta |-> <<>>] :
        st \in {StreamState}
                \cup {[StreamState EXCEPT !.auc_start_iso = Some(100),
                                          !.auc_ref_tc = Some(ref),
                                          !.auc_last_tc = Some(lst),
                                          !.auc_last_t = Some(1000),
                                          !.auc_area = a] :
                         ref \in {36800, 37500}, lst \in {36800, 37500, 38200},
                         a \in {0, 12000}},
        tc \in {36500, 36800, 37500, 39000},
        t \in {990, 1000, 1001, 1030, 1060, 1061, 5000}}

\* n intervals alternating between a and b ms
Alternating(a, b, n) == [i \in 1..n |-> IF i % 2 = 1 THEN a ELSE b]

\* an RR series of 20 beats (19 intervals, or 20 counting the one that ends
\* at the first beat) and the quality of its window, for the part of the
\* cycle from RR cleaning to publish
CycleInputs ==
    {[fn |-> "Complete", arg |-> [rr |-> Alternating(p[1], p[2], n), sqi |-> q],
      meta |-> <<>>] :
        p \in {<<500, 1500>>, <<1500, 500>>, <<1000, 1000>>, <<950, 1050>>,
               <<750, 1000>>},
        n \in {19, 20},
        q \in {29, 30, 35, 100}}

MetricInputs ==
    RrInputs \cup FatigueInputs \cup FsInputs \cup AlertInputs \cup HeatInputs
    \cup CycleInputs

InitMetrics ==
    /\ MainIdle
    /\ din \in MetricInputs
    /\ dout = None

Call_clean_rr ==
    /\ din.fn = "clean_rr" /\ IsNone(dout)
    /\ dout' = Some(clean_rr(din.arg))
    /\ UNCHANGED <<states, filt_cache, appended, out, last, nmsgs, din>>

Call_time_domain_hrv ==
    /\ din.fn = "time_domain_hrv" /\ IsNone(dout)
    /\ dout' = Some(time_domain_hrv(din.arg))
    /\ UNCHANGED <<states, filt_cache, appended, out, last, nmsgs, din>>

Call_freq_domain_hrv ==
    /\ din.fn = "freq_domain_hrv" /\ IsNone(dout)
    /\ \E r \in freq_domain_hrv(din.arg) : dout' = Some(r)
    /\ UNCHANGED <<states, filt_cache, appended, out, last, nmsgs, din>>

Call_baevsky_stress_index ==
    /\ din.fn = "baevsky_stress_index" /\ IsNone(dout)
    /\ dout' = Some(baevsky_stress_index(din.arg))
    /\ UNCHANGED <<states, filt_cache, appended, out, last, nmsgs, din>>

Call_fatigue_score ==
    /\ din.fn = "fatigue_score" /\ IsNone(dout)
    /\ dout' = Some(fatigue_score(din.arg.bpm, din.arg.rmssd_ms, din.arg.lf_hf,
                                  din.arg.stress_index, din.arg.sampen))
    /\ UNCHANGED <<states, filt_cache, appended, out, last, nmsgs, din>>

Call_FsUpdate ==
    /\ din.fn = "FsUpdate" /\ IsNone(dout)
    /\ dout' = Some(FsUpdate(din.arg.st, din.arg.ts))
    /\ UNCHANGED <<states, filt_cache, appended, out, last, nmsgs, din>>

Call_Alerts ==
    /\ din.fn = "Alerts" /\ IsNone(dout)
    /\ dout' = Some(Alerts(din.arg.sqi, din.arg.bpm, din.arg.rmssd_ms, din.arg.lf_hf,
                           din.arg.cvrr, din.arg.psi, din.arg.fscr, din.arg.cr))
    /\ UNCHANGED <<states, filt_cache, appended, out, last, nmsgs, din>>

Call_update_heat_auc ==
    /\ din.fn = "update_heat_auc" /\ IsNone(dout)
    /\ dout' = Some(update_heat_auc(din.arg.st, din.arg.tc, din.arg.t_now))
    /\ UNCHANGED <<states, filt_cache, appended, out, last, nmsgs, din>>

\* lines 597 to 710 of on_message on a new stream state
Call_Complete ==
    /\ din.fn = "Complete" /\ IsNone(dout)
    /\ \E rr \in {clean_rr(din.arg.rr)} :
         \E fd \in freq_domain_hrv(rr), sampen \in sample_entropy(rr), t_now \in Times :
             dout' = Some(Complete(<<"Team_A", "FF_A">>, StreamState, StreamState.fs_est,
                                   0, din.arg.sqi, <<>>, din.arg.rr, fd, sampen, t_now))
    /\ UNCHANGED <<states, filt_cache, appended, out, last, nmsgs, din>>

NextMetrics ==
    \/ Call_clean_rr
    \/ Call_time_domain_hrv
    \/ Call_freq_domain_hrv
    \/ Call_baevsky_stress_index
    \/ Call_fatigue_score
    \/ Call_FsUpdate
    \/ Call_Alerts
    \/ Call_update_heat_auc
    \/ Call_Complete

SpecMetrics == InitMetrics /\ [][NextMetrics]_vars


(***************************************************************************)
(* Properties of the metric, score, rate and alert functions, under        *)
(* SpecMetrics                                                             *)
(***************************************************************************)
Abs(v) == IF v < 0 THEN -v ELSE v

\* the indices of the intervals of rr within 4 x MAD of the median
NearMedian(rr) ==
    {i \in 1..Len(rr) :
        2 * Abs(2 * rr[i] - Median2(rr)) <= 4 * Mad4(rr, Median2(rr))}

\* r is the subsequence of x at the indices I, in order
IsSubSeqAt(r, x, I) ==
    /\ Len(r) = Cardinality(I)
    /\ \A i \in I : r[Cardinality({j \in I : j <= i})] = x[i]

\* C11: for a series of 3 intervals or more, clean_rr returns 3 intervals
\* or more: the intervals within 4 x MAD of the median, in order, when they
\* are 3 or more, and the input unmodified otherwise.
C11_CleanKeepsThree ==
    (Applied("clean_rr") /\ Len(din.arg) >= 3) =>
        /\ Len(Val(dout)) >= 3
        /\ IF Cardinality(NearMedian(din.arg)) >= 3
               THEN IsSubSeqAt(Val(dout), din.arg, NearMedian(din.arg))
               ELSE Val(dout) = din.arg

\* C11 witness: the MAD of 500, 500, 900 is zero and only two intervals are
\* within it; the series was returned unmodified.
C11_Witness ==
    /\ Applied("clean_rr")
    /\ din.arg = <<500, 500, 900>>
    /\ Cardinality(NearMedian(din.arg)) = 2
    /\ Val(dout) = din.arg

\* a series of 4 intervals was cleaned of its one outlier
C11_Cleaned ==
    /\ Applied("clean_rr")
    /\ din.arg = <<500, 2400, 520, 500>>
    /\ Val(dout) = <<500, 520, 500>>


\* clamp(num / span, 0, 1) * w, in 1/100 points
Share(num, span, w) ==
    IF num <= 0 THEN 0
    ELSE IF num >= span THEN 100 * w
    ELSE (num * w * 100) \div span

\* the contribution of an optional input: zero when it is missing
ShareOf(o, num, span, w) == IF o = None THEN 0 ELSE Share(num, span, w)

\* C13: fatigue_score is null only without bpm; otherwise it is the sum of
\* the five clamped contributions (HR above 100, weight 30; RMSSD below 25,
\* weight 30; LF/HF above 1.5, weight 15; stress index above 150, weight 15;
\* sample entropy below 1.2, weight 10), a missing input contributing zero;
\* it lies in [0, 100], is 0 at bpm = 60 with the other inputs neutral, and
\* is 100 only when every contribution is saturated.
C13_FatigueScore ==
    Applied("fatigue_score") =>
        LET a == din.arg
            r == Val(dout)
        IN  /\ (r = None) <=> (a.bpm = None)
            /\ a.bpm # None =>
                /\ Val(r) = Share(Val(a.bpm) - 10000, 8000, 30)
                            + ShareOf(a.rmssd_ms, 250 - Val(a.rmssd_ms), 250, 30)
                            + ShareOf(a.lf_hf, Val(a.lf_hf) - 150, 250, 15)
                            + ShareOf(a.stress_index, Val(a.stress_index) - 150, 250, 15)
                            + ShareOf(a.sampen, 120 - Val(a.sampen), 120, 10)
                /\ Val(r) >= 0 /\ Val(r) <= 10000
                /\ (/\ a.bpm = Some(6000)
                    /\ a.rmssd_ms = None \/ Val(a.rmssd_ms) >= 250
                    /\ a.lf_hf = None \/ Val(a.lf_hf) <= 150
                    /\ a.stress_index = None \/ Val(a.stress_index) <= 150
                    /\ a.sampen = None \/ Val(a.sampen) >= 120) => Val(r) = 0
                /\ Val(r) = 10000 =>
                    /\ Val(a.bpm) >= 18000
                    /\ a.rmssd_ms # None /\ Val(a.rmssd_ms) <= 0
                    /\ a.lf_hf # None /\ Val(a.lf_hf) >= 400
                    /\ a.stress_index # None /\ Val(a.stress_index) >= 400
                    /\ a.sampen # None /\ Val(a.sampen) <= 0

\* C13 witness: with bpm 140 and RMSSD 12.5 ms and the other three inputs
\* missing, the score is 15 + 15 = 30.
C13_Witness ==
    /\ Applied("fatigue_score")
    /\ din.arg = [bpm |-> Some(14000), rmssd_ms |-> Some(125), lf_hf |-> None,
                  stress_index |-> None, sampen |-> None]
    /\ Val(dout) = Some(3000)

\* every contribution saturated: the score is 100
C13_Saturated ==
    /\ Applied("fatigue_score")
    /\ Val(dout) = Some(10000)


\* the statistic of a time_domain_hrv result is present exactly when the
\* series has at least k intervals
PresentFrom(td, n, field, k) == (td[field] # None) <=> (n >= k)

\* C15 as stated: SDNN, RMSSD, pNN50, pNN20 and CVRR are non-null exactly
\* when n >= 2, SD1 and SD2 exactly when n >= 3.
C15_DispersionFromTwo ==
    Applied("time_domain_hrv") =>
        LET n == Len(din.arg)
            td == Val(dout)
        IN  /\ \A f \in {"sdnn_ms", "rmssd_ms", "pnn50_pct", "pnn20_pct", "cvrr"} :
                   PresentFrom(td, n, f, 2)
            /\ \A f \in {"sd1_ms", "sd2_ms"} : PresentFrom(td, n, f, 3)

\* C15, amended: SDNN and CVRR are non-null exactly when n >= 2; RMSSD,
\* pNN50 and pNN20 (statistics of the successive differences, of which at
\* least two are required) and SD1 and SD2 exactly when n >= 3; each
\* statistic is null independently of the others.
C15_DifferencesFromThree ==
    Applied("time_domain_hrv") =>
        LET n == Len(din.arg)
            td == Val(dout)
        IN  /\ \A f \in {"sdnn_ms", "cvrr"} : PresentFrom(td, n, f, 2)
            /\ \A f \in {"rmssd_ms", "pnn50_pct", "pnn20_pct", "sd1_ms", "sd2_ms"} :
                   PresentFrom(td, n, f, 3)

\* C15 witness: two intervals give SDNN and CVRR but no RMSSD, pNN or
\* Poincare statistic.
C15_Witness ==
    /\ Applied("time_domain_hrv")
    /\ Len(din.arg) = 2
    /\ Val(dout).sdnn_ms # None /\ Val(dout).cvrr # None
    /\ Val(dout).rmssd_ms = None /\ Val(dout).pnn50_pct = None
    /\ Val(dout).pnn20_pct = None
    /\ Val(dout).sd1_ms = None /\ Val(dout).sd2_ms = None

\* three intervals give every statistic; one interval gives none
C15_AllPresent ==
    /\ Applied("time_domain_hrv")
    /\ Len(din.arg) = 3
    /\ \A f \in {"sdnn_ms", "rmssd_ms", "pnn50_pct", "pnn20_pct", "cvrr",
                 "sd1_ms", "sd2_ms"} : Val(dout)[f] # None


\* LF and HF power were computed
PowersComputed(fd) == fd.lf_power # None /\ fd.hf_power # None

\* C16 as stated: LF and HF power are computed exactly when the sum of all
\* the intervals is at least 10 s, and all three values are null below it.
C16_GateOnSumOfIntervals ==
    Applied("freq_domain_hrv") =>
        /\ PowersComputed(Val(dout)) <=> (Sum(din.arg) >= 10000)
        /\ Sum(din.arg) < 10000 => Val(dout) = NoFreq

\* C16, amended: LF and HF power are computed exactly when the tachogram
\* spans at least 10 s, the span being the time from the first beat of the
\* series to its last, i.e. the sum of all intervals but the first; under
\* that span LF power, HF power and LF/HF are all null.
C16_GateOnTachogramSpan ==
    Applied("freq_domain_hrv") =>
        LET span == Sum(din.arg) - din.arg[1]
        IN  /\ PowersComputed(Val(dout)) <=> (span >= 10000)
            /\ span < 10000 => Val(dout) = NoFreq

\* C16 witness: intervals that sum to 10 s or more but span less than 10 s
\* give no spectral value.
C16_Witness ==
    /\ Applied("freq_domain_hrv")
    /\ Sum(din.arg) >= 10000
    /\ Sum(din.arg) - din.arg[1] < 10000
    /\ Val(dout) = NoFreq

\* a tachogram spanning exactly 10 s is analysed
C16_Computed ==
    /\ Applied("freq_domain_hrv")
    /\ Sum(din.arg) - din.arg[1] = 10000
    /\ PowersComputed(Val(dout))
    /\ Val(dout).lf_hf # None


\* the number of 50 ms bins of the histogram of rr: np.arange(min, max + 50,
\* 50) has one more edge than there are bins
HistogramBins(rr) == (Kth(rr, Len(rr)) - Kth(rr, 1) + 49) \div 50

\* C17: baevsky_stress_index returns a value only when the series has at
\* least 10 samples and its 50 ms histogram has at least 3 bins; with fewer
\* samples or fewer bins it returns null.
C17_ThreeBinsRequired ==
    Applied("baevsky_stress_index") =>
        /\ Val(dout) # None => Len(din.arg) >= 10 /\ HistogramBins(din.arg) >= 3
        /\ (Len(din.arg) < 10 \/ HistogramBins(din.arg) < 3) => Val(dout) = None

\* what the function does: a value once there are 10 samples and 3 bin
\* edges, that is 2 bins
C17_TwoBinsSuffice ==
    Applied("baevsky_stress_index") =>
        (Val(dout) # None <=> (Len(din.arg) >= 10 /\ HistogramBins(din.arg) >= 2))

\* ten samples over two bins give a stress index
C17_TwoBinValue ==
    /\ Applied("baevsky_stress_index")
    /\ din.arg = Rep(500, 9) \o <<551>>
    /\ Val(dout) = Some(1680)


\* 0.9 * fs_est + 0.1 * (last_n / dt_sec), in mHz
Blend(st, ts) ==
    (9 * st.fs_est + (Val(st.last_n) * 1000000) \div (ts - Val(st.last_ts))) \div 10

\* C18 as stated: with a previous timestamp and sample count, fs_est becomes
\* the blend exactly when the timestamp advanced by more than the minimum
\* delta, dt lies between 1 ms and 2 s and the instantaneous rate lies in
\* [50, 300] Hz, bounds included; otherwise fs_est is unchanged.
C18_BlendWithinClosedRange ==
    (Applied("FsUpdate") /\ din.arg.st.last_ts # None /\ din.arg.st.last_n # None) =>
        LET st == din.arg.st
            dt == din.arg.ts - Val(st.last_ts)
            n == Val(st.last_n)
        IN  Val(dout) = IF dt > 1 /\ dt < 2000
                           /\ 50 * dt <= n * 1000 /\ n * 1000 <= 300 * dt
                        THEN Blend(st, din.arg.ts)
                        ELSE st.fs_est

\* C18, amended: with a previous timestamp and sample count, fs_est becomes
\* the blend exactly when the timestamp advanced by more than 1 ms and by
\* less than 2 s and the instantaneous rate lies strictly between 50 and
\* 300 Hz (a rate of exactly 50 or 300 Hz is rejected); otherwise, and with
\* no previous timestamp, fs_est is unchanged.
C18_BlendWithinOpenRange ==
    Applied("FsUpdate") =>
        LET st == din.arg.st
        IN  IF st.last_ts = None \/ st.last_n = None THEN Val(dout) = st.fs_est
            ELSE LET dt == din.arg.ts - Val(st.last_ts)
                     n == Val(st.last_n)
                 IN  Val(dout) = IF dt > 1 /\ dt < 2000
                                    /\ 50 * dt < n * 1000 /\ n * 1000 < 300 * dt
                                 THEN Blend(st, din.arg.ts)
                                 ELSE st.fs_est

\* C18 witness: 300 samples followed one second later by the next frame
\* (exactly 300 Hz) leave an estimate of 130 Hz unchanged.
C18_Witness ==
    /\ Applied("FsUpdate")
    /\ din.arg.st.fs_est = 130000
    /\ din.arg.st.last_n = Some(300) /\ din.arg.st.last_ts = Some(1000)
    /\ din.arg.ts = 2000
    /\ Val(dout) = 130000

\* 100 samples followed 250 ms later by the next frame (400 Hz) are
\* rejected, followed one second later (100 Hz) they are blended in
C18_Blended ==
    /\ Applied("FsUpdate")
    /\ din.arg.st.fs_est = 130000
    /\ din.arg.st.last_n = Some(100) /\ din.arg.st.last_ts = Some(1000)
    /\ din.arg.ts = 2000
    /\ Val(dout) = 127000


\* the alert of this type and severity is in the list
Raised(al, type, severity) == \E i \in 1..Len(al) : al[i] = Alert(type, severity)

\* the alerts that need quality
RuleAlerts ==
    {Alert("tachy", "danger"), Alert("brady", "danger"), Alert("fatigue_hrv", "warn"),
     Alert("sympathetic_load", "warn"), Alert("irregular_rhythm", "warn"),
     Alert("heat_strain", "danger"), Alert("heat_strain", "warn"),
     Alert("fatigue_composite", "warn"), Alert("cardiac_concern", "danger")}

\* C19: with quality at or above LOW_SQI the alert list is exactly the set
\* of rules whose own condition holds, each decided independently: tachy iff
\* bpm > TACHY_BPM, brady iff bpm < BRADY_BPM, fatigue_hrv iff RMSSD <
\* LOW_RMSSD_MS, sympathetic_load iff LF/HF is non-null and > HIGH_LFHF,
\* irregular_rhythm iff CVRR > IRREGULAR_WARN, heat_strain danger iff PSI >=
\* PSI_DANGER, heat_strain warn iff PSI_WARN <= PSI < PSI_DANGER,
\* fatigue_composite iff fatigue score >= 70, cardiac_concern iff cardiac
\* risk score >= 70; no alert is listed twice and at most one heat_strain
\* alert is present.
C19_IndependentRules ==
    (Applied("Alerts") /\ din.arg.sqi >= LOW_SQI) =>
        LET a == din.arg
            al == Val(dout)
            Above(o, t) == o # None /\ Val(o) > t
            AtLeast(o, t) == o # None /\ Val(o) >= t
            Below(o, t) == o # None /\ Val(o) < t
        IN  /\ \A i \in 1..Len(al) : al[i] \in RuleAlerts
            /\ \A i, j \in 1..Len(al) : al[i] = al[j] => i = j
            /\ Raised(al, "tachy", "danger") <=> a.bpm > TACHY_BPM
            /\ Raised(al, "brady", "danger") <=> a.bpm < BRADY_BPM
            /\ Raised(al, "fatigue_hrv", "warn") <=> Below(a.rmssd_ms, LOW_RMSSD_MS)
            /\ Raised(al, "sympathetic_load", "warn") <=> Above(a.lf_hf, HIGH_LFHF)
            /\ Raised(al, "irregular_rhythm", "warn") <=> Above(a.cvrr, IRREGULAR_WARN)
            /\ Raised(al, "heat_strain", "danger") <=> AtLeast(a.psi, PSI_DANGER)
            /\ Raised(al, "heat_strain", "warn") <=>
                   (AtLeast(a.psi, PSI_WARN) /\ Below(a.psi, PSI_DANGER))
            /\ Raised(al, "fatigue_composite", "warn") <=> AtLeast(a.fscr, 7000)
            /\ Raised(al, "cardiac_concern", "danger") <=> AtLeast(a.cr, 7000)
            /\ Cardinality({i \in 1..Len(al) : al[i].type = "heat_strain"}) <= 1

\* C19 witness: seven rules hold at once and seven alerts are raised, one
\* of them the heat_strain danger.
C19_Witness ==
    /\ Applied("Alerts") /\ din.arg.sqi >= LOW_SQI
    /\ Len(Val(dout)) = 7
    /\ Raised(Val(dout), "tachy", "danger")
    /\ Raised(Val(dout), "heat_strain", "danger")
    /\ ~Raised(Val(dout), "heat_strain", "warn")

\* brady and sympathetic_load alone
C19_BradyAndLoad ==
    /\ Applied("Alerts") /\ din.arg.sqi >= LOW_SQI
    /\ Val(dout) = <<Alert("brady", "danger"), Alert("sympathetic_load", "warn")>>

\* no rule holds: the list is empty
C19_Quiet ==
    /\ Applied("Alerts") /\ din.arg.sqi >= LOW_SQI
    /\ din.arg.bpm = 8000
    /\ Val(dout) = <<>>


\* the fields of a stream state that update_heat_auc does not own
BesideHeat(st) ==
    [fs_est |-> st.fs_est, buf |-> st.buf, last_ts |-> st.last_ts, last_n |-> st.last_n,
     baseline_hr |-> st.baseline_hr, baseline_rmssd |-> st.baseline_rmssd,
     baseline_tc |-> st.baseline_tc]

\* C21: the first update of a key sets the reference to the current
\* estimate and the area to 0; a later update with dt in (0, 60] s adds the
\* trapezoid 0.5 * ((last - ref) + (current - ref)) * dt to the area; a
\* later update with dt <= 0 or dt > 60 s leaves the area unchanged; every
\* later update replaces last time and last temperature with the current
\* ones and never changes the reference or the session start.
C21_HeatAccumulator ==
    Applied("update_heat_auc") =>
        LET st == din.arg.st
            tc == din.arg.tc
            t == din.arg.t_now
            r == Val(dout)
        IN  /\ BesideHeat(r) = BesideHeat(st)
            /\ r.auc_last_t = Some(t) /\ r.auc_last_tc = Some(tc)
            /\ IF st.auc_start_iso = None
               THEN /\ r.auc_ref_tc = Some(tc)
                    /\ r.auc_area = 0
                    /\ r.auc_start_iso # None
               ELSE LET dt == t - Val(st.auc_last_t)
                        ref == Val(st.auc_ref_tc)
                        trapezoid == (((Val(st.auc_last_tc) - ref) + (tc - ref)) * dt) \div 2
                    IN  /\ r.auc_ref_tc = st.auc_ref_tc
                        /\ r.auc_start_iso = st.auc_start_iso
                        /\ r.auc_area = IF dt > 0 /\ dt <= 60
                                        THEN st.auc_area + trapezoid
                                        ELSE st.auc_area

\* C21 witness: 60 s after an update at 38.2 degC over a reference of
\* 36.8 degC, an update at 39.0 degC adds 0.5 * (1.4 + 2.2) * 60 = 108
\* degC s to the area.
C21_Witness ==
    /\ Applied("update_heat_auc")
    /\ din.arg.st.auc_ref_tc = Some(36800) /\ din.arg.st.auc_last_tc = Some(38200)
    /\ din.arg.st.auc_area = 12000
    /\ din.arg.tc = 39000 /\ din.arg.t_now = 1060
    /\ Val(dout).auc_area = 120000
    /\ Val(dout).auc_last_t = Some(1060)

\* 61 s after the last update the area is left alone and the position resynchronised
C21_Gap ==
    /\ Applied("update_heat_auc")
    /\ din.arg.st.auc_area = 12000 /\ din.arg.st.auc_last_tc = Some(38200)
    /\ din.arg.tc = 39000 /\ din.arg.t_now = 1061
    /\ Val(dout).auc_area = 12000
    /\ Val(dout).auc_last_t = Some(1061) /\ Val(dout).auc_last_tc = Some(39000)


\* the series alternates between 0.5 s and 1.5 s
AlternatesHalfAndOneAndHalf(rr) ==
    /\ \A i \in 1..Len(rr) : rr[i] \in {500, 1500}
    /\ \A i \in 1..(Len(rr) - 1) : rr[i + 1] # rr[i]

\* C22: an RR series alternating between 0.5 s and 1.5 s for 20 beats, with
\* quality at or above LOW_SQI, gives a CVRR above IRREGULAR_WARN and an
\* irregular_rhythm alert of severity warn in the published alert list.
C22_AlternatingIsIrregular ==
    (/\ Applied("Complete")
     /\ AlternatesHalfAndOneAndHalf(din.arg.rr)
     /\ Len(din.arg.rr) \in {19, 20}
     /\ din.arg.sqi >= LOW_SQI) =>
        LET c == Val(dout)
        IN  /\ c.out[1].body.cvrr # None
            /\ Val(c.out[1].body.cvrr) > IRREGULAR_WARN
            /\ Len(c.out) = 2
            /\ Raised(c.out[2].body.alerts, "irregular_rhythm", "warn")

\* what the cycle does: the alert is raised for 20 intervals, whose median
\* is 1.0 s; of 19 intervals (the intervals between 20 beats) the median is
\* one of the two values, the MAD is 0, clean_rr keeps only the intervals
\* equal to the median, and CVRR is 0 with no irregular_rhythm alert
C22_OnlyEvenCounts ==
    (/\ Applied("Complete")
     /\ AlternatesHalfAndOneAndHalf(din.arg.rr)
     /\ din.arg.sqi >= LOW_SQI) =>
        LET c == Val(dout)
        IN  IF Len(din.arg.rr) % 2 = 0
            THEN /\ c.out[1].body.n_rr = Len(din.arg.rr)
                 /\ Val(c.out[1].body.cvrr) > IRREGULAR_WARN
                 /\ Raised(c.last.alerts, "irregular_rhythm", "warn")
            ELSE /\ c.out[1].body.n_rr = (Len(din.arg.rr) + 1) \div 2
                 /\ c.out[1].body.cvrr = Some(0)
                 /\ ~Raised(c.last.alerts, "irregular_rhythm", "warn")

\* 20 intervals of 0.5 s and 1.5 s at quality 0.30 keep all their
\* intervals, have a CVRR of 0.512 and raise irregular_rhythm
C22_TwentyIntervals ==
    /\ Applied("Complete")
    /\ din.arg.rr = Alternating(500, 1500, 20) /\ din.arg.sqi = LOW_SQI
    /\ Val(dout).out[1].body.n_rr = 20
    /\ Val(dout).out[1].body.cvrr = Some(512)
    /\ Raised(Val(dout).out[2].body.alerts, "irregular_rhythm", "warn")

\* the 19 intervals of 20 beats at quality 1.0 lose their nine 1.5 s
\* intervals and raise no irregular_rhythm alert
C22_TwentyBeats ==
    /\ Applied("Complete")
    /\ din.arg.rr = Alternating(500, 1500, 19) /\ din.arg.sqi = 100
    /\ Val(dout).out[1].body.n_rr = 10
    /\ Val(dout).out[1].body.cvrr = Some(0)
    /\ ~Raised(Val(dout).last.alerts, "irregular_rhythm", "warn")

\* a series alternating between 0.95 s and 1.05 s is not flagged
C22_Regular ==
    /\ Applied("Complete")
    /\ din.arg.rr = Alternating(950, 1050, 20) /\ din.arg.sqi = LOW_SQI
    /\ Val(Val(dout).out[1].body.cvrr) <= IRREGULAR_WARN
    /\ ~Raised(Val(dout).last.alerts, "irregular_rhythm", "warn")


(***************************************************************************)
(* Well-formed packets that keep arriving for one key, each with at least  *)
(* one sample, until the key has been analysed                             *)
(***************************************************************************)
LiveMsgs == 64      \* messages delivered in a run of SpecLive

\* one sample; 20 samples with the same stamp; 31 samples 0.25 s later (the
\* 20 samples before them then read as 80 Hz and raise the estimate)
L_One == PackBundle(<<Frame(1000, 1, 7)>>)
L_Twenty == PackBundle(<<Frame(1000, 20, 100)>>)
L_Thirty == PackBundle(<<Frame(1250, 31, 200)>>)

LiveMessages == {<<T_A, p>> : p \in {L_One, L_Twenty, L_Thirty}}

KeyA == <<"Team_A", "FF_A">>

\* an analysis of the key ran on the last message
AnalysedA == Analysed /\ last.key = KeyA

Arrive ==
    /\ nmsgs < LiveMsgs
    /\ ~AnalysedA
    /\ \E m \in LiveMessages : on_message(m[1], m[2])
    /\ nmsgs' = nmsgs + 1
    /\ UNCHANGED <<din, dout>>

NextLive == Arrive

\* the broker keeps delivering: the client loop calls on_message for every
\* message that arrives
SpecLive == Init /\ [][NextLive]_vars /\ WF_vars(Arrive)

\* the deque can hold the analysis threshold and the window of every key
CapacitySuffices ==
    \A k \in DOMAIN states :
        /\ BufMaxLen >= Need(states[k].fs_est)
        /\ BufMaxLen >= WindowLen(states[k].fs_est)

C30_RisingThreshold ==
    /\ AnalysedA /\ Ready(KeyA)
    /\ Need(states[KeyA].fs_est) = 62

=============================================================================
